---- MODULE Spec2Model ----
(***************************************************************************)
(* Model of the depth code of src/src/cli_sam.py: the tile grid and         *)
(* Hann-window blender of _zoe_infer_tiled, the regression aligner          *)
(* _align_patch_to_guide, the joint-bilateral refiner                       *)
(* _refine_with_joint_bilateral, the normalizer _normalize_depth_to_uint16, *)
(* the statistics of _compute_mask_depth_stats and the depth step of        *)
(* run_once, which composes them, and the two modes of main: the request    *)
(* loop with its model cache, and the one-shot call of run_once.            *)
(*                                                                         *)
(* Numbers.  A depth value is a record [n |-> numerator, d |-> denominator]*)
(* with d > 0 in lowest terms; d = 0 stands for a non-finite float (NaN or *)
(* an infinity).  Rational arithmetic is exact, so float32 rounding is not *)
(* modelled, except that the depth step of run_once keeps the rasters it   *)
(* stores to the nearest 1 / FUnit.  Window weights are kept in hundredths *)
(* (WUnit).                                                                *)
(***************************************************************************)
EXTENDS Integers, Sequences, FiniteSets, TLC

VARIABLES
    \* ---- _zoe_infer_tiled -------------------------------------------------
    W, H,            \* pil_img.size
    tile_size,       \* argument tile_size
    overlap,         \* argument overlap
    guide_dim,       \* argument guide_dim (0 stands for None / 0)
    pc,              \* position in _zoe_infer_tiled
    ts, ov, step,    \* locals of lines 287-289
    clamped,         \* whether line 300 clipped w2 to >= 0.25
    xs, ys,          \* tile start coordinates, lines 302-307
    guide,           \* [present, pat]: the upsampled guide raster or None
    calls,           \* the oracle invocations made so far, in order
    k,               \* index of the next (y, x) pair of the tile loop
    acc, wsum,       \* accumulation buffers, lines 291-292
    out,             \* the returned raster, line 340
    \* ---- _align_patch_to_guide --------------------------------------------
    tile_patch,      \* argument tile_patch, a flattened patch
    guide_patch,     \* argument guide_patch: [present, vals]
    aligned,         \* the returned patch
    apc,             \* "call" before, "ret" after the call
    \* ---- _refine_with_joint_bilateral -------------------------------------
    rgb, depth,      \* arguments rgb and depth
    mask_img,        \* argument mask_img: [present, vals]
    mask_is_binary,  \* argument mask_is_binary
    refined,         \* the returned raster
    rpc,             \* "call" before, "ret" after the call
    \* ---- _normalize_depth_to_uint16 --------------------------------------
    depth_raw,       \* argument depth_raw
    d16, d_norm,     \* the returned 16-bit and float rasters
    d_min, d_max,    \* the returned minimum and maximum
    npc,             \* "call" before, "ret" after the call
    \* ---- _compute_mask_depth_stats ---------------------------------------
    depth_map,       \* argument depth_map
    mask_uint8,      \* argument mask_uint8
    focus_points,    \* argument focus_points: [present, pts]
    focus_radius,    \* ZOE_FOCUS_RADIUS in thousandths, 0 when unset
    stats,           \* the returned dict
    spc,             \* "call" before, "ret" after the call
    \* ---- run_once, depth step --------------------------------------------
    environ,         \* the environment variables read by the depth step
    use_tiles,       \* local use_tiles
    downscaled_to,   \* local downscaled_to (<<>> stands for None)
    refine_failed,   \* whether the handler of line 627 caught an exception
    meta,            \* the metadata record
    run_pc,          \* position in the depth step
    \* ---- main --------------------------------------------------------------
    ZOE_CACHE,       \* the keys of _ZOE_CACHE (line 30)
    load_calls,      \* the calls of load_zoe made so far, in order
    stdin,           \* the lines of standard input
    line_no,         \* how many lines the loop of line 707 has read
    stdout,          \* the lines printed so far
    main_pc          \* position in main

tiledVars == <<W, H, tile_size, overlap, guide_dim, pc, ts, ov, step, clamped,
               xs, ys, guide, calls, k, acc, wsum, out>>
alignVars == <<tile_patch, guide_patch, aligned, apc>>
refineVars == <<rgb, depth, mask_img, mask_is_binary, refined, rpc>>
normVars == <<depth_raw, d16, d_norm, d_min, d_max, npc>>
statsVars == <<depth_map, mask_uint8, focus_points, focus_radius, stats, spc>>
runVars == <<environ, use_tiles, downscaled_to, refine_failed, meta, run_pc>>
mainVars == <<ZOE_CACHE, load_calls, stdin, line_no, stdout, main_pc>>
stageVars == <<normVars, statsVars, runVars, mainVars>>
vars == <<tiledVars, alignVars, refineVars, stageVars>>

----------------------------------------------------------------------------
\* Bounds of the model.

\* Largest image side of the tile-grid specification.
MaxDim == 257
\* Longest image side of the specification that runs the tile loop.
MaxSide == 130
\* Longest flattened patch handed to the aligner on its own.
MaxPatch == 26
\* Largest raster side handed to the refiner on its own.
MaxRefine == 4
\* Largest raster side handed to the normalizer on its own.
MaxNorm == 4
\* Largest raster side handed to the statistics on their own.
MaxStats == 10
\* Width of the widest image given to the depth step of run_once.
MaxRun == 129
\* Resolution of a raster stored as float32 by the depth step of run_once:
\* values are kept to the nearest 1 / FUnit.
FUnit == 256
\* Resolution of the blend weights: a weight w is kept as w * WUnit, rounded
\* up, so that a positive weight stays positive.
WUnit == 100

----------------------------------------------------------------------------
\* Exact arithmetic on depth values.

Max(a, b) == IF a >= b THEN a ELSE b
Min(a, b) == IF a <= b THEN a ELSE b
Abs(a) == IF a < 0 THEN -a ELSE a

RECURSIVE GCD(_, _)
GCD(a, b) == IF b = 0 THEN a ELSE GCD(b, a % b)

\* The rational n/d (d /= 0) in lowest terms with a positive denominator.
Rat(n, d) ==
    LET g == GCD(Abs(n), Abs(d))
        s == IF d < 0 THEN -1 ELSE 1
    IN  [n |-> (s * n) \div g, d |-> (s * d) \div g]

\* A non-finite float.
NaN == [n |-> 0, d |-> 0]
IntVal(i) == [n |-> i, d |-> 1]
IsFinite(v) == v.d > 0

\* (Sums and quotients are formed over the least common denominator, which
\* keeps the intermediate products small.)
RAdd(a, b) ==
    IF ~IsFinite(a) \/ ~IsFinite(b) THEN NaN
    ELSE LET g == GCD(a.d, b.d)
         IN  Rat(a.n * (b.d \div g) + b.n * (a.d \div g), (a.d \div g) * b.d)
RMul(a, b) ==
    IF ~IsFinite(a) \/ ~IsFinite(b) THEN NaN
    ELSE Rat(a.n * b.n, a.d * b.d)
\* a / b for a finite b > 0.
RDivPos(a, b) ==
    IF ~IsFinite(a) THEN NaN
    ELSE LET g == GCD(a.d, b.d)
         IN  Rat(a.n * (b.d \div g), (a.d \div g) * b.n)

----------------------------------------------------------------------------
\* _align_patch_to_guide (lines 262-279).  A patch is the row-major sequence
\* of its pixels; the values entering the aligner are whole numbers of a
\* depth quantum or non-finite.

\* n, sum t, sum g, sum t*t and sum t*g over the pixels lo..hi that are
\* finite in both patches (mask of line 265, tile_vals and guide_vals).
RECURSIVE MomentsIn(_, _, _, _)
MomentsIn(tp, gv, lo, hi) ==
    IF lo > hi THEN [n |-> 0, st |-> 0, sg |-> 0, stt |-> 0, stg |-> 0]
    ELSE IF lo = hi
    THEN IF IsFinite(tp[lo]) /\ IsFinite(gv[lo])
         THEN [n |-> 1, st |-> tp[lo].n, sg |-> gv[lo].n,
               stt |-> tp[lo].n * tp[lo].n, stg |-> tp[lo].n * gv[lo].n]
         ELSE [n |-> 0, st |-> 0, sg |-> 0, stt |-> 0, stg |-> 0]
    ELSE LET mid == (lo + hi) \div 2
             a == MomentsIn(tp, gv, lo, mid)
             b == MomentsIn(tp, gv, mid + 1, hi)
         IN  [n |-> a.n + b.n, st |-> a.st + b.st, sg |-> a.sg + b.sg,
              stt |-> a.stt + b.stt, stg |-> a.stg + b.stg]

Moments(tp, gv, q) == MomentsIn(tp, gv, 1, q)

\* Line 266: fewer jointly finite samples than this leave the tile as it is.
MinSamples == 24

\* t_var < 1e-6, with t_var = vnum / n^2 (line 273).
VarTooSmall(vnum, n) == vnum <= (n * n - 1) \div 1000000

\* Mutant of AlignScale: the upper clip bound is 0.5 instead of 5.0.
AlignScaleLowCap(cnum, vnum) ==
    IF 5 * cnum < vnum THEN Rat(1, 5)
    ELSE IF 2 * cnum > vnum THEN Rat(1, 2)
    ELSE Rat(cnum, vnum)

\* Lines 276-277: scale = cov / t_var clipped to [0.2, 5.0], with
\* cov = cnum / n^2 and t_var = vnum / n^2 > 0.
AlignScale(cnum, vnum) ==
    IF 5 * cnum < vnum THEN Rat(1, 5)
    ELSE IF cnum > 5 * vnum THEN Rat(5, 1)
    ELSE Rat(cnum, vnum)

\* Line 278: bias = g_mean - scale * t_mean.
AlignBias(m, scale) ==
    Rat(m.sg * scale.d - scale.n * m.st, m.n * scale.d)

\* Mutant of AlignFew: too few samples give the bias-only transform.
AlignFewBiasOnly(tp, m) ==
    IF m.n = 0 THEN tp
    ELSE [q \in 1..Len(tp) |-> RAdd(tp[q], Rat(m.sg - m.st, m.n))]

\* Line 267: with too few samples the tile patch is returned as it is.
AlignFew(tp, m) == tp

\* Lines 266-279, given the moments m of the jointly finite samples.
AlignWith(tp, m) ==
    LET vnum == m.n * m.stt - m.st * m.st
        cnum == m.n * m.stg - m.st * m.sg
    IN  IF m.n < MinSamples THEN AlignFew(tp, m)
        ELSE IF VarTooSmall(vnum, m.n)
        THEN [q \in 1..Len(tp) |-> RAdd(tp[q], Rat(m.sg - m.st, m.n))]
        ELSE [q \in 1..Len(tp) |->
                 RAdd(RMul(tp[q], AlignScale(cnum, vnum)),
                      AlignBias(m, AlignScale(cnum, vnum)))]

\* Lines 263-279.  (The singleton set binds the moments to their value, so
\* that they are computed once per call.)
AlignPatch(tp, gp) ==
    IF ~gp.present THEN tp
    ELSE CHOOSE r \in {AlignWith(tp, m) :
                          m \in {Moments(tp, gp.vals, Len(tp))}} : TRUE

----------------------------------------------------------------------------
\* _zoe_infer_tiled: parameters, window and tile grid (lines 286-307).

\* ts = max(64, int(tile_size))
TileSide(tile) == Max(64, tile)

\* Mutant of EffOverlap: the overlap is not capped at ts//2.
EffOverlapUncapped(ovl, t) == Max(0, ovl)

\* ov = int(max(0, min(overlap, ts//2)))
EffOverlap(ovl, t) == Max(0, Min(ovl, t \div 2))

\* Mutant of ClampRule: the comparison is made with real division.
ClampRuleReal(o, t) == 3 * o < t

\* The clip of line 300 is applied when ov < ts//3 (floor division).
ClampRule(o, t) == o < t \div 3

\* list(range(0, stop, st)) for stop >= 1, st >= 1.
PyRange(stop, st) == [i \in 1..((stop + st - 1) \div st) |-> (i - 1) * st]

\* Mutant of AxisStarts: the far-edge start is never appended.
AxisStartsNoAnchor(dim, t, st) == PyRange(Max(1, dim - t + 1), st)

\* Lines 302-307 for one axis: the range of starts, then the far-edge start
\* max(0, dim - ts) appended when the range does not already end with it.
AxisStarts(dim, t, st) ==
    LET r == PyRange(Max(1, dim - t + 1), st)
        last == Max(0, dim - t)
    IN  IF r[Len(r)] /= last THEN Append(r, last) ELSE r

\* Mutant of GridAssign: the step ignores the overlap.
GridAssignNoOverlap ==
    /\ ts' = TileSide(tile_size)
    /\ ov' = EffOverlap(overlap, TileSide(tile_size))
    /\ step' = TileSide(tile_size)
    /\ clamped' = ClampRule(ov', ts')
    /\ xs' = AxisStarts(W, ts', step')
    /\ ys' = AxisStarts(H, ts', step')

\* Lines 286-289 and 294-307: the locals ts, ov, step, the clip decision of
\* the weight window and the start coordinates of both axes.
GridAssign ==
    /\ ts' = TileSide(tile_size)
    /\ ov' = EffOverlap(overlap, TileSide(tile_size))
    /\ step' = TileSide(tile_size) - EffOverlap(overlap, TileSide(tile_size))
    /\ clamped' = ClampRule(ov', ts')
    /\ xs' = AxisStarts(W, ts', step')
    /\ ys' = AxisStarts(H, ts', step')

NoGuide == [present |-> FALSE, pat |-> "none"]
NoRaster == <<>>

IdleAlign ==
    /\ tile_patch = <<>>
    /\ guide_patch = [present |-> FALSE, vals |-> <<>>]
    /\ aligned = <<>>
    /\ apc = "idle"

IdleRefine ==
    /\ rgb = NoRaster
    /\ depth = NoRaster
    /\ mask_img = [present |-> FALSE, vals |-> NoRaster]
    /\ mask_is_binary = FALSE
    /\ refined = NoRaster
    /\ rpc = "idle"

IdleTiled ==
    /\ W = 1 /\ H = 1 /\ tile_size = 0 /\ overlap = 0 /\ guide_dim = 0
    /\ pc = "idle" /\ ts = 0 /\ ov = 0 /\ step = 0 /\ clamped = FALSE
    /\ xs = <<>> /\ ys = <<>> /\ guide = NoGuide /\ calls = <<>> /\ k = 0
    /\ acc = NoRaster /\ wsum = NoRaster /\ out = NoRaster

NoStats == [fields |-> {}]

IdleNorm ==
    /\ depth_raw = NoRaster /\ d16 = NoRaster /\ d_norm = NoRaster
    /\ d_min = IntVal(0) /\ d_max = IntVal(0) /\ npc = "idle"

IdleStats ==
    /\ depth_map = NoRaster /\ mask_uint8 = NoRaster
    /\ focus_points = [present |-> FALSE, pts |-> <<>>]
    /\ focus_radius = 0 /\ stats = NoStats /\ spc = "idle"

NoEnviron ==
    [ZOE_USE_TILES |-> "off", ZOE_TILE_AUTO_MIN |-> 0, ZOE_TILE_SIZE |-> 0,
     ZOE_TILE_OVERLAP |-> 0, ZOE_TILE_GUIDE |-> 0, ZOE_MAX_DIM |-> 0,
     ZOE_REFINE |-> TRUE, ZOE_SMOOTH_DEPTH |-> FALSE, scipy |-> TRUE]
NoMeta == [fields |-> {}]

IdleRun ==
    /\ environ = NoEnviron /\ use_tiles = FALSE /\ downscaled_to = <<>>
    /\ refine_failed = FALSE /\ meta = NoMeta /\ run_pc = "idle"

IdleMain ==
    /\ ZOE_CACHE = {} /\ load_calls = <<>> /\ stdin = <<>> /\ line_no = 0
    /\ stdout = <<>> /\ main_pc = "idle"

IdleStages == IdleNorm /\ IdleStats /\ IdleRun /\ IdleMain

\* State of _zoe_infer_tiled on entry, before line 286.
EntryTiled ==
    /\ pc = "start" /\ ts = 0 /\ ov = 0 /\ step = 0 /\ clamped = FALSE
    /\ xs = <<>> /\ ys = <<>> /\ guide = NoGuide /\ calls = <<>> /\ k = 0
    /\ acc = NoRaster /\ wsum = NoRaster /\ out = NoRaster

----------------------------------------------------------------------------
\* The tile grid on its own: lines 286-289 and 294-307 applied to image
\* sizes up to MaxDim, without the buffers and the tile loop.

GridSpots == {65, 129}
GridSizes ==
    {<<w, 1>> : w \in 1..MaxDim} \cup {<<1, h>> : h \in 1..MaxDim}
        \cup (GridSpots \X GridSpots) \cup {<<256, 256>>}
GridTileSizes == {48, 64, 100, 128, 300}
GridOverlaps == {-8, 0, 16, 21, 32, 33, 42, 64, 100, 127}

InitGrid ==
    /\ \E sz \in GridSizes : W = sz[1] /\ H = sz[2]
    /\ tile_size \in GridTileSizes
    /\ overlap \in GridOverlaps
    /\ guide_dim = 0
    /\ EntryTiled
    /\ IdleAlign
    /\ IdleRefine
    /\ IdleStages

Grid ==
    /\ pc = "start"
    /\ GridAssign
    /\ pc' = "grid"
    /\ UNCHANGED <<W, H, tile_size, overlap, guide_dim, guide, calls, k,
                   acc, wsum, out>>
    /\ UNCHANGED <<alignVars, refineVars>>
    /\ UNCHANGED stageVars

NextGrid == Grid
SpecGrid == InitGrid /\ [][NextGrid]_vars

\* Pixel (px, py) lies in the tile starting at (x, y), clipped to the image.
InTile(px, py, x, y) ==
    /\ x <= px /\ px < Min(x + ts, W)
    /\ y <= py /\ py < Min(y + ts, H)

GridDone == pc \in {"grid", "guide", "tiles", "done"}

\* C1: every pixel of the image lies in the clipped rectangle of at least
\* one generated start pair, and the last start of each axis is
\* max(0, dimension - ts).
TilesCoverImage ==
    GridDone =>
        /\ \A py \in 0..(H - 1) : \A px \in 0..(W - 1) :
              \E j \in 1..Len(ys) : \E i \in 1..Len(xs) :
                  InTile(px, py, xs[i], ys[j])
        /\ xs[Len(xs)] = Max(0, W - ts)
        /\ ys[Len(ys)] = Max(0, H - ts)

\* C1 witness: a grid whose far-edge start was appended at an unequal
\* spacing on both axes.
TilesCoverImageWitness ==
    /\ GridDone
    /\ Len(xs) >= 3 /\ xs[Len(xs)] - xs[Len(xs) - 1] < step
    /\ Len(ys) >= 3 /\ ys[Len(ys)] - ys[Len(ys) - 1] < step

\* The start coordinates the tile scheduler is specified to produce on one
\* axis: the multiples of st up to the far-edge start max(0, dim - t), and
\* that far-edge start.
SpecifiedStarts(dim, t, st) ==
    {m \in 0..Max(0, dim - t) : m % st = 0} \cup {Max(0, dim - t)}

SeqSet(s) == {s[i] : i \in 1..Len(s)}
Increasing(s) == \A i \in 1..(Len(s) - 1) : s[i] < s[i + 1]

\* C5 as stated: for 0 <= overlap < tile_size the starts of each axis are
\* 0, step, 2*step, ... and the far-edge start, with step and the far-edge
\* start taken from the configured tile_size and overlap.
StartsFromConfigured ==
    (GridDone /\ 0 <= overlap /\ overlap < tile_size) =>
        /\ SeqSet(xs) = SpecifiedStarts(W, tile_size, tile_size - overlap)
        /\ SeqSet(ys) = SpecifiedStarts(H, tile_size, tile_size - overlap)

\* C5 amended: the starts of each axis are, in increasing order and without
\* repetition, the multiples of ts - ov up to max(0, dimension - ts) and
\* that far-edge start, where ts = max(64, tile_size) and
\* ov = max(0, min(overlap, ts div 2)).
StartsFromEffective ==
    GridDone =>
        LET ets == IF tile_size > 64 THEN tile_size ELSE 64
            half == ets \div 2
            eov == IF overlap < 0 THEN 0
                   ELSE IF overlap > half THEN half ELSE overlap
        IN  /\ ts = ets /\ ov = eov /\ step = ets - eov
            /\ Increasing(xs) /\ Increasing(ys)
            /\ SeqSet(xs) = SpecifiedStarts(W, ets, ets - eov)
            /\ SeqSet(ys) = SpecifiedStarts(H, ets, ets - eov)

\* C5 witness: a configuration with 0 <= overlap < tile_size whose overlap
\* exceeds ts div 2, on an image wide enough for three starts.
StartsFromEffectiveWitness ==
    /\ GridDone
    /\ 0 <= overlap /\ overlap < tile_size
    /\ overlap > ts \div 2
    /\ Len(xs) >= 3

\* C6: a 256x256 image with tile_size 128 and overlap 32 has the starts
\* 0, 96, 128 on each axis, and these tiles cover [0, 256).
Scenario256 ==
    (GridDone /\ W = 256 /\ H = 256 /\ tile_size = 128 /\ overlap = 32) =>
        /\ xs = <<0, 96, 128>>
        /\ ys = <<0, 96, 128>>
        /\ \A p \in 0..255 :
              /\ \E i \in 1..Len(xs) : xs[i] <= p /\ p < xs[i] + 128
              /\ \E j \in 1..Len(ys) : ys[j] <= p /\ p < ys[j] + 128

\* C6 witness: the grid of that scenario has been computed.
Scenario256Witness ==
    GridDone /\ W = 256 /\ H = 256 /\ tile_size = 128 /\ overlap = 32

\* C9 as stated: the window is clipped exactly when 3 * overlap < tile_size
\* for the configured overlap and tile size.
ClampWhenRealThird ==
    (GridDone /\ 0 <= overlap /\ overlap < tile_size) =>
        (clamped <=> 3 * overlap < tile_size)

\* C9 amended: the window is clipped exactly when ov < ts div 3, that is
\* 3 * (ov + 1) <= ts, for ts = max(64, tile_size) and
\* ov = max(0, min(overlap, ts div 2)).
ClampWhenFloorThird ==
    GridDone =>
        LET ets == IF tile_size > 64 THEN tile_size ELSE 64
            half == ets \div 2
            eov == IF overlap < 0 THEN 0
                   ELSE IF overlap > half THEN half ELSE overlap
        IN  clamped <=> 3 * (eov + 1) <= ets

\* C9 witness: an overlap below a real third of the tile side that is not
\* below the floored third, so the window is left unclipped.
ClampWhenFloorThirdWitness ==
    GridDone /\ 3 * ov < ts /\ ~clamped

----------------------------------------------------------------------------
\* _zoe_infer_tiled: weight window, guide pass, tile loop and final division
\* (lines 291-341).

CeilDiv(a, b) == (a + b - 1) \div b

\* np.hanning(M)[i] = sin^2(pi * i / (M - 1)) in units of 1 / WUnit, rounded
\* up.  The sine is Bhaskara's rational approximation
\* sin(pi * t) ~ 16 t (1 - t) / (5 - 4 t (1 - t)), which like the window is
\* exactly 0 at both ends, positive between them and 1 in the middle.
\* Rounding up keeps the smallest positive products of the real window
\* (below 1e-6 for M > 100) positive.  Line 295 uses ones instead of the
\* window for M < 8.
HannQ(M, i) ==
    IF M < 8 THEN WUnit
    ELSE LET n == M - 1
             p == i * (n - i)
             sinQ == CeilDiv(WUnit * 16 * p, 5 * n * n - 4 * p)
         IN  CeilDiv(sinQ * sinQ, WUnit)

\* w2[i, j] of lines 297-300 in units of 1 / WUnit: the outer product of the
\* window with itself, clipped from below to 0.25 when `clip` is set.
W2(M, clip, i, j) ==
    LET raw == CeilDiv(HannQ(M, i) * HannQ(M, j), WUnit)
    IN  IF clip THEN Max(raw, WUnit \div 4) ELSE raw

\* Rasters the depth oracle (_zoe_forward_single) may return for an input
\* of any size, as the value at row i, column j of the returned raster.
OraclePats == {"flat", "ramp", "hole"}
OracleVal(pat, i, j) ==
    CASE pat = "flat" -> IntVal(2)
      [] pat = "ramp" -> IntVal((i + j) % 3)
      [] pat = "hole" -> IF i = 0 /\ j < 3 THEN NaN ELSE IntVal(1 + (j % 2))
      [] pat = "void" -> NaN

\* Guide rasters after the resize back to (W, H), as the value at row y,
\* column x.
GuidePats == {"flat", "ramp", "nan"}
GuideVal(pat, y, x) ==
    CASE pat = "flat" -> IntVal(1)
      [] pat = "ramp" -> IntVal(1 + ((x + y) % 3))
      [] pat = "nan" -> NaN

\* int(round(a / b)) for a >= 0, b > 0: Python rounds halves to even.
RoundDiv(a, b) ==
    LET q == a \div b
        r == a % b
    IN  IF 2 * r > b \/ (2 * r = b /\ q % 2 = 1) THEN q + 1 ELSE q

\* Mutant of WantGuide: the size of the image is not compared.
WantGuideAnySize == guide_dim /= 0

\* Line 312: a guide is built when guide_dim is set and the image is larger.
WantGuide == guide_dim /= 0 /\ Max(W, H) > guide_dim

\* Lines 313-314: the size of the downsampled guide image.
GuideSize ==
    <<Max(1, RoundDiv(W * guide_dim, Max(W, H))),
      Max(1, RoundDiv(H * guide_dim, Max(W, H)))>>

\* pil_img.crop((x, y, x + ts, y + ts)) of line 327: PIL returns an image of
\* the size of the box, ts x ts, also where the box leaves the image.
CropSize(x, y) == <<ts, ts>>

\* The k-th (y, x) pair of the loops of lines 325-326.
TileCount == Len(ys) * Len(xs)
TileY(kk) == ys[((kk - 1) \div Len(xs)) + 1]
TileX(kk) == xs[((kk - 1) % Len(xs)) + 1]

\* Lines 329-335 for the tile at (x, y) and the oracle's raster `pat`: the
\* cropped, aligned tile with non-finite values replaced by 0, as a
\* row-major patch of h_eff rows and w_eff columns.
TilePatch(pat, x, y) ==
    LET h_eff == Min(ts, H - y)
        w_eff == Min(ts, W - x)
        cnt == h_eff * w_eff
        row(q) == (q - 1) \div w_eff
        col(q) == (q - 1) % w_eff
        tile == [q \in 1..cnt |-> OracleVal(pat, row(q), col(q))]
        g_patch == [present |-> TRUE,
                    vals |-> [q \in 1..cnt |->
                                 GuideVal(guide.pat, y + row(q), x + col(q))]]
    IN  CHOOSE r \in
            {[q \in 1..cnt |-> IF IsFinite(al[q]) THEN al[q] ELSE IntVal(0)] :
                al \in {IF guide.present THEN AlignPatch(tile, g_patch)
                        ELSE tile}} : TRUE

\* Lines 291-292.
ZeroRaster == [y \in 0..(H - 1) |-> [x \in 0..(W - 1) |-> IntVal(0)]]
ZeroWeights == [y \in 0..(H - 1) |-> [x \in 0..(W - 1) |-> 0]]

\* Lines 286-307.
Prepare ==
    /\ pc = "start"
    /\ GridAssign
    /\ acc' = ZeroRaster
    /\ wsum' = ZeroWeights
    /\ pc' = "guide"
    /\ UNCHANGED <<W, H, tile_size, overlap, guide_dim, guide, calls, k, out>>
    /\ UNCHANGED <<alignVars, refineVars>>
    /\ UNCHANGED stageVars

\* Lines 309-322 when no guide is asked for.
SkipGuide ==
    /\ pc = "guide"
    /\ ~WantGuide
    /\ pc' = "tiles"
    /\ k' = 1
    /\ UNCHANGED <<W, H, tile_size, overlap, guide_dim, ts, ov, step, clamped,
                   xs, ys, guide, calls, acc, wsum, out>>
    /\ UNCHANGED <<alignVars, refineVars>>
    /\ UNCHANGED stageVars

\* Lines 309-322 when a guide is asked for: one oracle call on the
\* downsampled image; an exception of that call is caught and leaves no guide.
BuildGuide ==
    /\ pc = "guide"
    /\ WantGuide
    /\ \E res \in GuidePats \cup {"raise"} :
          /\ calls' = Append(calls, [kind |-> "guide", w |-> GuideSize[1],
                                     h |-> GuideSize[2], x |-> 0, y |-> 0,
                                     res |-> res])
          /\ guide' = IF res = "raise" THEN NoGuide
                      ELSE [present |-> TRUE, pat |-> res]
    /\ pc' = "tiles"
    /\ k' = 1
    /\ UNCHANGED <<W, H, tile_size, overlap, guide_dim, ts, ov, step, clamped,
                   xs, ys, acc, wsum, out>>
    /\ UNCHANGED <<alignVars, refineVars>>
    /\ UNCHANGED stageVars

\* One iteration of the loop of lines 325-337 in which the oracle returns.
TileStep ==
    /\ pc = "tiles"
    /\ k <= TileCount
    /\ \E pat \in OraclePats : \E tile \in {TilePatch(pat, TileX(k), TileY(k))} :
          LET x == TileX(k)
              y == TileY(k)
              h_eff == Min(ts, H - y)
              w_eff == Min(ts, W - x)
              in(py, px) == /\ y <= py /\ py < y + h_eff
                            /\ x <= px /\ px < x + w_eff
              at(py, px) == tile[(py - y) * w_eff + (px - x) + 1]
              w(py, px) == W2(ts, clamped, py - y, px - x)
          IN  /\ calls' = Append(calls, [kind |-> "tile", w |-> CropSize(x, y)[1],
                                         h |-> CropSize(x, y)[2], x |-> x,
                                         y |-> y, res |-> pat])
              /\ acc' = [py \in 0..(H - 1) |-> [px \in 0..(W - 1) |->
                            IF in(py, px)
                            THEN RAdd(acc[py][px],
                                      RMul(at(py, px), IntVal(w(py, px))))
                            ELSE acc[py][px]]]
              /\ wsum' = [py \in 0..(H - 1) |-> [px \in 0..(W - 1) |->
                            IF in(py, px) THEN wsum[py][px] + w(py, px)
                            ELSE wsum[py][px]]]
    /\ k' = k + 1
    /\ UNCHANGED <<W, H, tile_size, overlap, guide_dim, pc, ts, ov, step,
                   clamped, xs, ys, guide, out>>
    /\ UNCHANGED <<alignVars, refineVars>>
    /\ UNCHANGED stageVars

\* An iteration in which the oracle call of line 328 raises: nothing catches
\* the exception, so _zoe_infer_tiled ends without returning a raster.
TileRaise ==
    /\ pc = "tiles"
    /\ k <= TileCount
    /\ calls' = Append(calls, [kind |-> "tile", w |-> CropSize(TileX(k), TileY(k))[1],
                               h |-> CropSize(TileX(k), TileY(k))[2],
                               x |-> TileX(k), y |-> TileY(k), res |-> "raise"])
    /\ pc' = "raised"
    /\ UNCHANGED <<W, H, tile_size, overlap, guide_dim, ts, ov, step, clamped,
                   xs, ys, guide, k, acc, wsum, out>>
    /\ UNCHANGED <<alignVars, refineVars>>
    /\ UNCHANGED stageVars

\* Line 339: a weight that is not above 1e-6 is replaced by 1.0.  In units
\* of 1 / WUnit the weights above 1e-6 are those of at least one unit.
FloorWeight(wq) == IF wq > 0 THEN wq ELSE WUnit

\* Lines 339-341 after the last tile.
Finish ==
    /\ pc = "tiles"
    /\ k > TileCount
    /\ wsum' = [py \in 0..(H - 1) |-> [px \in 0..(W - 1) |->
                   FloorWeight(wsum[py][px])]]
    /\ out' = [py \in 0..(H - 1) |-> [px \in 0..(W - 1) |->
                  RDivPos(acc[py][px], IntVal(FloorWeight(wsum[py][px])))]]
    /\ pc' = "done"
    /\ UNCHANGED <<W, H, tile_size, overlap, guide_dim, ts, ov, step, clamped,
                   xs, ys, guide, calls, k, acc>>
    /\ UNCHANGED <<alignVars, refineVars>>
    /\ UNCHANGED stageVars

TiledSizes ==
    {<<64, 1>>, <<64, 3>>, <<65, 2>>, <<100, 3>>, <<2, 70>>, <<MaxSide, 2>>}
TiledTileSizes == {48, 64, 100}
TiledOverlaps == {0, 21, 50}
TiledGuideDims == {0, 100}

InitTiled ==
    /\ \E sz \in TiledSizes : W = sz[1] /\ H = sz[2]
    /\ tile_size \in TiledTileSizes
    /\ overlap \in TiledOverlaps
    /\ guide_dim \in TiledGuideDims
    /\ EntryTiled
    /\ IdleAlign
    /\ IdleRefine
    /\ IdleStages

NextTiled ==
    \/ Prepare
    \/ SkipGuide
    \/ BuildGuide
    \/ TileStep
    \/ TileRaise
    \/ Finish

SpecTiled == InitTiled /\ [][NextTiled]_vars

\* Every tile of the grid has been accumulated; the division of lines
\* 339-341 has not been made yet.
AllAccumulated == pc = "tiles" /\ k > TileCount

\* C2: once all tiles have been accumulated, the accumulated weight is
\* strictly positive at every pixel of the image, before the floor of line
\* 339 is applied.
WeightPositiveEverywhere ==
    AllAccumulated =>
        \A py \in 0..(H - 1) : \A px \in 0..(W - 1) : wsum[py][px] > 0

\* C3: when some pixel has accumulated weight zero, the blender does not go
\* on to return a raster.
ZeroWeightIsFatal ==
    [][(AllAccumulated
          /\ \E py \in 0..(H - 1) : \E px \in 0..(W - 1) : wsum[py][px] = 0)
        => pc' /= "done"]_vars

\* C4: with tile_size >= max(W, H) and overlap = 0 the tiled path makes one
\* oracle call, on an input of the size of the image taken at its origin,
\* and returns the value of that call at every pixel.
SingleTileIsUntiled ==
    (pc = "done" /\ tile_size >= Max(W, H) /\ overlap = 0) =>
        /\ Len(calls) = 1
        /\ calls[1].w = W /\ calls[1].h = H
        /\ calls[1].x = 0 /\ calls[1].y = 0
        /\ \A py \in 0..(H - 1) : \A px \in 0..(W - 1) :
              out[py][px] = OracleVal(calls[1].res, py, px)

\* C17: when a raster has been returned, no oracle invocation of the run
\* (guide pass or tile) raised an error.
OracleFailureIsTerminal ==
    pc = "done" => \A i \in 1..Len(calls) : calls[i].res /= "raise"

\* The oracle invocations of the guide pass made so far.
GuideCalls == {i \in 1..Len(calls) : calls[i].kind = "guide"}

\* The value accumulated at pixel (py, px) by the tile invocations i..Len(calls)
\* when no tile is aligned: the sum of weight times the oracle's own value,
\* a non-finite value counting as 0.
RECURSIVE RawBlend(_, _, _)
RawBlend(i, py, px) ==
    IF i > Len(calls) THEN IntVal(0)
    ELSE LET c == calls[i]
             covers == /\ c.kind = "tile" /\ c.res /= "raise"
                       /\ c.x <= px /\ px < Min(c.x + ts, W)
                       /\ c.y <= py /\ py < Min(c.y + ts, H)
             v == OracleVal(c.res, py - c.y, px - c.x)
         IN  IF covers
             THEN RAdd(RMul(IF IsFinite(v) THEN v ELSE IntVal(0),
                            IntVal(W2(ts, clamped, py - c.y, px - c.x))),
                       RawBlend(i + 1, py, px))
             ELSE RawBlend(i + 1, py, px)

\* C19: once the guide pass is over, it has invoked the oracle exactly once
\* when guide_dim is set and max(W, H) > guide_dim, and not at all otherwise;
\* in the latter case there is no guide, every tile is accumulated with the
\* oracle's own values, and a finished run has made as many oracle
\* invocations as there are (x, y) start pairs.
GuideOnceOrNever ==
    pc \in {"tiles", "done", "raised"} =>
        LET want == guide_dim /= 0 /\ Max(W, H) > guide_dim
        IN  /\ Cardinality(GuideCalls) = (IF want THEN 1 ELSE 0)
            /\ ~want =>
                  /\ ~guide.present
                  /\ \A py \in 0..(H - 1) : \A px \in 0..(W - 1) :
                        acc[py][px] = RawBlend(1, py, px)
                  /\ pc = "done" => Len(calls) = Len(xs) * Len(ys)

\* C19 witness: a finished run with guide_dim set on an image that fits it,
\* with more than one tile.
GuideOnceOrNeverWitness ==
    /\ pc = "done"
    /\ guide_dim /= 0 /\ Max(W, H) <= guide_dim
    /\ Len(calls) >= 2 /\ Len(calls) = Len(xs) * Len(ys)

----------------------------------------------------------------------------
\* _align_patch_to_guide on its own, applied to patches of up to MaxPatch
\* pixels.

\* A tile patch of len pixels: a pattern with its first `holes` pixels
\* non-finite.
AlignTilePats == {"flat", "ramp"}
TilePatchOf(pat, len, holes) ==
    [q \in 1..len |->
        IF q <= holes THEN NaN
        ELSE IF pat = "flat" THEN IntVal(2) ELSE IntVal(q % 3)]

\* A guide patch derived from the tile patch tp, with its last `holes`
\* pixels non-finite ("same" is the tile patch itself).
AlignGuidePats == {"same", "shift", "double", "negated", "tenfold", "flat"}
GuidePatchOf(pat, tp, holes) ==
    [q \in 1..Len(tp) |->
        IF pat = "same" THEN tp[q]
        ELSE IF q > Len(tp) - holes THEN NaN
        ELSE IF pat = "flat" THEN IntVal(1)
        ELSE IF ~IsFinite(tp[q]) THEN IntVal(3)
        ELSE IF pat = "shift" THEN IntVal(tp[q].n + 1)
        ELSE IF pat = "double" THEN IntVal(2 * tp[q].n)
        ELSE IF pat = "negated" THEN IntVal(-tp[q].n)
        ELSE IntVal(10 * tp[q].n)]

InitAlign ==
    /\ \E len \in (MaxPatch - 4)..MaxPatch : \E pat \in AlignTilePats :
       \E holes \in 0..3 :
          tile_patch = TilePatchOf(pat, len, holes)
    /\ \/ guide_patch = [present |-> FALSE, vals |-> <<>>]
       \/ \E gpat \in AlignGuidePats : \E gholes \in 0..2 :
             guide_patch = [present |-> TRUE,
                            vals |-> GuidePatchOf(gpat, tile_patch, gholes)]
    /\ aligned = <<>>
    /\ apc = "call"
    /\ IdleTiled
    /\ IdleRefine
    /\ IdleStages

Align ==
    /\ apc = "call"
    /\ aligned' = AlignPatch(tile_patch, guide_patch)
    /\ apc' = "ret"
    /\ UNCHANGED <<tile_patch, guide_patch>>
    /\ UNCHANGED <<tiledVars, refineVars>>
    /\ UNCHANGED stageVars

NextAlign == Align
SpecAlign == InitAlign /\ [][NextAlign]_vars

\* The pixels finite in both patches, and the sums of the tile and of the
\* guide values over them.
Joint == {q \in 1..Len(tile_patch) :
             IsFinite(tile_patch[q]) /\ IsFinite(guide_patch.vals[q])}
RECURSIVE SumOver(_, _)
SumOver(vals, Q) ==
    IF Q = {} THEN 0
    ELSE LET q == CHOOSE x \in Q : TRUE
         IN  vals[q].n + SumOver(vals, Q \ {q})

\* The bias-only transform s = 1, b = mean(guide) - mean(tile).
BiasOnly ==
    [q \in 1..Len(tile_patch) |->
        RAdd(tile_patch[q],
             Rat(SumOver(guide_patch.vals, Joint) - SumOver(tile_patch, Joint),
                 Cardinality(Joint)))]

\* C7 as stated: with a guide and fewer than 24 jointly finite pixels (at
\* least one, so that the means exist) the returned patch is the bias-only
\* transform of the tile.
FewSamplesBiasOnly ==
    (apc = "ret" /\ guide_patch.present
       /\ Cardinality(Joint) >= 1 /\ Cardinality(Joint) < 24) =>
        aligned = BiasOnly

\* C7 amended: with a guide and fewer than 24 jointly finite pixels the
\* tile is returned unchanged, as it is without a guide; the bias-only
\* transform is what is returned for at least 24 jointly finite pixels over
\* which the tile is constant.
FewSamplesIdentity ==
    (apc = "ret" /\ guide_patch.present) =>
        /\ Cardinality(Joint) < 24 => aligned = tile_patch
        /\ (Cardinality(Joint) >= 24
              /\ \A p \in Joint : \A q \in Joint :
                    tile_patch[p] = tile_patch[q]) => aligned = BiasOnly

\* C7 witness: a guide, fewer than 24 jointly finite pixels, and means that
\* differ, so that the bias-only transform would change the tile.
FewSamplesIdentityWitness ==
    /\ apc = "ret" /\ guide_patch.present
    /\ Cardinality(Joint) >= 1 /\ Cardinality(Joint) < 24
    /\ SumOver(guide_patch.vals, Joint) /= SumOver(tile_patch, Joint)

\* C8: a tile equal to its guide patch at every pixel is returned unchanged.
AlignIdentityOnEqual ==
    (apc = "ret" /\ guide_patch.present /\ guide_patch.vals = tile_patch) =>
        aligned = tile_patch

\* C8 witness: a tile equal to its guide patch with at least 24 jointly
\* finite pixels that are not all equal, which takes the regression branch.
AlignIdentityOnEqualWitness ==
    /\ apc = "ret" /\ guide_patch.present /\ guide_patch.vals = tile_patch
    /\ Cardinality(Joint) >= 24
    /\ \E p \in Joint : \E q \in Joint : tile_patch[p] /= tile_patch[q]

----------------------------------------------------------------------------
\* _refine_with_joint_bilateral (lines 344-378), called as run_once calls
\* it: with the default radius, sigma_s and sigma_r.  A raster is a function
\* of the row y and the column x; rgb holds a triple per pixel, mask_img the
\* value the mask test reads (the pixel, or its channel 0).

\* Default of the parameter radius.
Radius == 2

RasterH(r) == Cardinality(DOMAIN r)
RasterW(r) == Cardinality(DOMAIN r[0])

\* exp(-z) for z = zq / 16 >= 0, in units of 1 / WUnit, rounded down (so a
\* far neighbour gets weight 0, as exp underflows in float32).  The
\* exponential is approximated by 1 / (1 + z + z^2 / 2), which like exp is 1
\* at 0, positive and decreasing.
ExpQ(zq) ==
    LET z == Min(zq, 1024)
    IN  (WUnit * 512) \div (512 + 32 * z + z * z)

\* gs of line 370, with two_sigma_s2 = 2 * 2.0^2 = 8.
SpatialQ(dy, dx) == ExpQ(2 * (dy * dy + dx * dx))

\* gr of line 373, with colours scaled by 1/255 and
\* two_sigma_r2 = 2 * 0.1^2 = 1/50.
RangeQ(c1, c2) ==
    LET sq == (c1[1] - c2[1]) * (c1[1] - c2[1])
                + (c1[2] - c2[2]) * (c1[2] - c2[2])
                + (c1[3] - c2[3]) * (c1[3] - c2[3])
    IN  ExpQ((16 * 2 * sq) \div 2601)

\* Mutant of Selected: the mask is not consulted.
SelectedAlways(mi, binary, y, x) == TRUE

\* Lines 346-352 and 362: whether pixel (y, x) is filtered.
Selected(mi, binary, y, x) ==
    IF ~mi.present THEN TRUE
    ELSE IF binary THEN mi.vals[y][x] > 0
    ELSE mi.vals[y][x] > 127

\* The window of lines 359-360 and 364-365 around (y, x).
Window(h, w, y, x) ==
    {<<yy, xx>> : yy \in Max(0, y - Radius)..(Min(h, y + Radius + 1) - 1),
                  xx \in Max(0, x - Radius)..(Min(w, x + Radius + 1) - 1)}

\* w of line 374 at neighbour p of (y, x).
BilateralQ(img, y, x, p) ==
    (SpatialQ(p[1] - y, p[2] - x) * RangeQ(img[p[1]][p[2]], img[y][x]))
        \div WUnit

RECURSIVE WeightSum(_, _, _, _)
WeightSum(img, y, x, P) ==
    IF P = {} THEN 0
    ELSE LET p == CHOOSE q \in P : TRUE
         IN  BilateralQ(img, y, x, p) + WeightSum(img, y, x, P \ {p})

RECURSIVE WeightedDepth(_, _, _, _, _)
WeightedDepth(img, d, y, x, P) ==
    IF P = {} THEN IntVal(0)
    ELSE LET p == CHOOSE q \in P : TRUE
         IN  RAdd(RMul(IntVal(BilateralQ(img, y, x, p)), d[p[1]][p[2]]),
                  WeightedDepth(img, d, y, x, P \ {p}))

\* Lines 366-377 for a selected pixel.
Filtered(img, d, y, x) ==
    LET P == Window(RasterH(d), RasterW(d), y, x)
        w_sum == WeightSum(img, y, x, P)
    IN  IF w_sum > 0
        THEN RDivPos(WeightedDepth(img, d, y, x, P), IntVal(w_sum))
        ELSE d[y][x]

\* Lines 344-378.
RefineRaster(img, d, mi, binary) ==
    [y \in 0..(RasterH(d) - 1) |-> [x \in 0..(RasterW(d) - 1) |->
        IF Selected(mi, binary, y, x) THEN Filtered(img, d, y, x)
        ELSE d[y][x]]]

RefineDepthPats == {"flat", "ramp", "spike"}
DepthOf(pat, y, x) ==
    CASE pat = "flat" -> IntVal(5)
      [] pat = "ramp" -> IntVal(3 * y + x)
      [] pat = "spike" -> IF y = 0 /\ x = 0 THEN NaN ELSE IntVal(x + 1)

RefineRgbPats == {"plain", "edge", "shade"}
RgbOf(pat, y, x) ==
    CASE pat = "plain" -> <<90, 90, 90>>
      [] pat = "edge" -> IF x < 2 THEN <<0, 0, 0>> ELSE <<255, 255, 255>>
      [] pat = "shade" -> <<10 * x, 10 * y, 40>>

RefineMaskPats == {"zero", "all", "left", "weak"}
MaskOf(pat, y, x) ==
    CASE pat = "zero" -> 0
      [] pat = "all" -> 255
      [] pat = "left" -> IF x = 0 THEN 255 ELSE 0
      [] pat = "weak" -> IF y = 0 THEN 100 ELSE 0

InitRefine ==
    /\ \E h \in 1..MaxRefine : \E w \in 1..MaxRefine :
          /\ \E dp \in RefineDepthPats :
                depth = [y \in 0..(h - 1) |-> [x \in 0..(w - 1) |->
                            DepthOf(dp, y, x)]]
          /\ \E rp \in RefineRgbPats :
                rgb = [y \in 0..(h - 1) |-> [x \in 0..(w - 1) |->
                          RgbOf(rp, y, x)]]
          /\ \/ mask_img = [present |-> FALSE, vals |-> NoRaster]
             \/ \E mp \in RefineMaskPats :
                   mask_img = [present |-> TRUE,
                               vals |-> [y \in 0..(h - 1) |->
                                           [x \in 0..(w - 1) |->
                                               MaskOf(mp, y, x)]]]
    /\ mask_is_binary \in BOOLEAN
    /\ refined = NoRaster
    /\ rpc = "call"
    /\ IdleTiled
    /\ IdleAlign
    /\ IdleStages

Refine ==
    /\ rpc = "call"
    /\ refined' = RefineRaster(rgb, depth, mask_img, mask_is_binary)
    /\ rpc' = "ret"
    /\ UNCHANGED <<rgb, depth, mask_img, mask_is_binary>>
    /\ UNCHANGED <<tiledVars, alignVars>>
    /\ UNCHANGED stageVars

NextRefine == Refine
SpecRefine == InitRefine /\ [][NextRefine]_vars

\* The mask test of the refiner: a binary mask selects the pixels above 0,
\* any other mask those whose channel 0 is above 127.
MaskSelects(y, x) ==
    /\ mask_img.present
    /\ IF mask_is_binary THEN mask_img.vals[y][x] > 0
       ELSE mask_img.vals[y][x] > 127

\* C10: every pixel the mask does not select keeps its input depth value,
\* and with a mask that is zero everywhere the returned raster is the input
\* raster.
UnmaskedPassThrough ==
    (rpc = "ret" /\ mask_img.present) =>
        /\ \A y \in DOMAIN depth : \A x \in DOMAIN depth[y] :
              ~MaskSelects(y, x) => refined[y][x] = depth[y][x]
        /\ (\A y \in DOMAIN depth : \A x \in DOMAIN depth[y] :
               mask_img.vals[y][x] = 0) => refined = depth

\* C10 witness: a returned raster with a pixel the mask does not select,
\* next to a selected pixel whose value the filter changed.
UnmaskedPassThroughWitness ==
    /\ rpc = "ret" /\ mask_img.present
    /\ \E y \in DOMAIN depth : \E x \in DOMAIN depth[y] : ~MaskSelects(y, x)
    /\ \E y \in DOMAIN depth : \E x \in DOMAIN depth[y] :
          MaskSelects(y, x) /\ refined[y][x] /= depth[y][x]

\* C11: every filtered pixel whose own input depth is finite has a finite
\* refined value, whatever non-finite values lie in its neighbourhood.
NonFiniteNeighbourIgnored ==
    rpc = "ret" =>
        \A y \in DOMAIN depth : \A x \in DOMAIN depth[y] :
            ((~mask_img.present \/ MaskSelects(y, x)) /\ IsFinite(depth[y][x]))
                => IsFinite(refined[y][x])

----------------------------------------------------------------------------
\* _normalize_depth_to_uint16 (lines 196-209).

RLess(a, b) ==
    LET g == GCD(a.d, b.d)
    IN  a.n * (b.d \div g) < b.n * (a.d \div g)
RSub(a, b) == RAdd(a, [n |-> -b.n, d |-> b.d])
RMax(a, b) == IF RLess(a, b) THEN b ELSE a

Pixels(r) == {<<y, x>> : y \in DOMAIN r, x \in DOMAIN r[0]}
FinitePixels(r) == {p \in Pixels(r) : IsFinite(r[p[1]][p[2]])}

\* np.min and np.max over the values at the pixels P (P not empty).
MinOver(r, P) ==
    LET p == CHOOSE q \in P : \A o \in P : ~RLess(r[o[1]][o[2]], r[q[1]][q[2]])
    IN  r[p[1]][p[2]]
MaxOver(r, P) ==
    LET p == CHOOSE q \in P : \A o \in P : ~RLess(r[q[1]][q[2]], r[o[1]][o[2]])
    IN  r[p[1]][p[2]]

\* Line 206: range_val = max(d_max - d_min, 1e-6).
RangeVal(lo, hi) == RMax(RSub(hi, lo), Rat(1, 1000000))

\* Mutant of NormValue: the minimum is not subtracted.
NormValueNoOffset(v, lo, rng) == RDivPos(v, rng)

\* Line 207 at one pixel: (d - d_min) / range_val.
NormValue(v, lo, rng) == RDivPos(RSub(v, lo), rng)

\* floor(65535 * n / d) for 0 <= n < d, computed in two steps (65535 is
\* 255 * 257) so that the products stay small.
Floor16(n, d) ==
    LET t == 257 * n
    IN  255 * (t \div d) + (255 * (t % d)) \div d

\* Line 208 at one pixel: np.clip(d * 65535.0, 0, 65535).astype(np.uint16);
\* the conversion to uint16 drops the fractional part.
ToUint16(v) ==
    IF v.n <= 0 THEN 0
    ELSE IF v.n >= v.d THEN 65535
    ELSE Floor16(v.n, v.d)

\* Lines 203-209 given d_min = lo and d_max = hi.
NormalizeWith(r, lo, hi) ==
    LET d == [y \in DOMAIN r |-> [x \in DOMAIN r[y] |->
                 NormValue(IF IsFinite(r[y][x]) THEN r[y][x] ELSE IntVal(0),
                           lo, RangeVal(lo, hi))]]
    IN  [d16 |-> [y \in DOMAIN r |-> [x \in DOMAIN r[y] |-> ToUint16(d[y][x])]],
         d_norm |-> d, d_min |-> lo, d_max |-> hi]

\* Lines 196-209: the tuple (d16, d, d_min, d_max) returned for raster r.
NormalizeDepth(r) ==
    IF FinitePixels(r) = {}
    THEN [d16 |-> [y \in DOMAIN r |-> [x \in DOMAIN r[y] |-> 0]],
          d_norm |-> [y \in DOMAIN r |-> [x \in DOMAIN r[y] |-> IntVal(0)]],
          d_min |-> IntVal(0), d_max |-> IntVal(1)]
    ELSE CHOOSE res \in
            {NormalizeWith(r, lo, hi) :
                lo \in {MinOver(r, FinitePixels(r))},
                hi \in {MaxOver(r, FinitePixels(r))}} : TRUE

\* Rasters handed to the normalizer on its own: the value at row y, column
\* x of pattern pat, in units of 1 / q.
NormPats == {"flat", "ramp", "steps", "holes", "lowhole", "neg", "void"}
NormQuanta == {1, 4, 10000000}
NormInt(pat, y, x) ==
    CASE pat = "flat" -> 3
      [] pat = "ramp" -> 1 + y + x
      [] pat = "steps" -> IF x = 0 THEN 0 ELSE IF y = 0 THEN 1 ELSE 4
      [] pat = "holes" -> 2 + ((2 * y + x) % 4)
      [] pat = "lowhole" -> 5 + x
      [] pat = "neg" -> x - 6
      [] pat = "void" -> 0
NormHole(pat, y, x) ==
    \/ pat = "void"
    \/ pat \in {"holes", "lowhole", "neg"} /\ y = 0 /\ x = 0
NormRaster(pat, q, h, w) ==
    [y \in 0..(h - 1) |-> [x \in 0..(w - 1) |->
        IF NormHole(pat, y, x) THEN NaN ELSE Rat(NormInt(pat, y, x), q)]]

InitNorm ==
    /\ \E h \in 1..MaxNorm : \E w \in 1..MaxNorm :
       \E pat \in NormPats : \E q \in NormQuanta :
          depth_raw = NormRaster(pat, q, h, w)
    /\ d16 = NoRaster /\ d_norm = NoRaster
    /\ d_min = IntVal(0) /\ d_max = IntVal(0)
    /\ npc = "call"
    /\ IdleTiled
    /\ IdleAlign
    /\ IdleRefine
    /\ IdleStats
    /\ IdleRun
    /\ IdleMain

Normalize ==
    /\ npc = "call"
    /\ \E res \in {NormalizeDepth(depth_raw)} :
          /\ d16' = res.d16
          /\ d_norm' = res.d_norm
          /\ d_min' = res.d_min
          /\ d_max' = res.d_max
    /\ npc' = "ret"
    /\ UNCHANGED depth_raw
    /\ UNCHANGED <<tiledVars, alignVars, refineVars, statsVars, runVars>>
    /\ UNCHANGED mainVars

NextNorm == Normalize
SpecNorm == InitNorm /\ [][NextNorm]_vars

AllFinite(r) == FinitePixels(r) = Pixels(r)
Values16 == {d16[p[1]][p[2]] : p \in Pixels(d16)}

\* C12 as stated: for an all-finite raster whose values are not all equal
\* the 16-bit raster has minimum 0 and maximum 65535, all values in
\* [0, 65535].
FullRangeWhenNotConstant ==
    (npc = "ret" /\ AllFinite(depth_raw)
       /\ \E p \in Pixels(depth_raw) : \E o \in Pixels(depth_raw) :
             depth_raw[p[1]][p[2]] /= depth_raw[o[1]][o[2]]) =>
        /\ \A v \in Values16 : 0 <= v /\ v <= 65535
        /\ 0 \in Values16 /\ 65535 \in Values16

\* C12 amended: for an all-finite raster whose largest and smallest value
\* differ by at least 1e-6 the 16-bit raster has minimum 0 and maximum 65535,
\* all values in [0, 65535]; the minimum is 0 for every all-finite raster.
FullRangeWhenSpread ==
    (npc = "ret" /\ AllFinite(depth_raw)) =>
        /\ \A v \in Values16 : 0 <= v /\ v <= 65535
        /\ 0 \in Values16
        /\ (\E p \in Pixels(depth_raw) : \E o \in Pixels(depth_raw) :
               ~RLess(RSub(depth_raw[p[1]][p[2]], depth_raw[o[1]][o[2]]),
                      Rat(1, 1000000)))
              => 65535 \in Values16

\* C12 witness: an all-finite raster with a spread of at least 1e-6, an
\* offset and a value strictly between the two ends.
FullRangeWhenSpreadWitness ==
    /\ npc = "ret" /\ AllFinite(depth_raw)
    /\ d_min.n /= 0
    /\ ~RLess(RSub(d_max, d_min), Rat(1, 1000000))
    /\ \E v \in Values16 : 0 < v /\ v < 65535

\* C14: each finite pixel of a raster whose values spread over at least 1e-6
\* maps to an integer nearest to 65535 * (v - min) / (max - min): the 16-bit
\* value differs from the exact quotient by at most one half.
RoundsToNearest ==
    (npc = "ret" /\ FinitePixels(depth_raw) /= {}
       /\ ~RLess(RSub(d_max, d_min), Rat(1, 1000000))) =>
        \A p \in FinitePixels(depth_raw) :
            LET num == RSub(depth_raw[p[1]][p[2]], d_min)
                q == RDivPos(num, RSub(d_max, d_min))
            IN  2 * Abs(d16[p[1]][p[2]] * q.d - 65535 * q.n) <= q.d

\* C21: every value of the normalized float raster lies in [0, 1], and every
\* pixel that was non-finite in the input is 0 in the float raster and in the
\* 16-bit raster.
NonFiniteMapsToZero ==
    npc = "ret" =>
        \A p \in Pixels(depth_raw) :
            /\ ~RLess(d_norm[p[1]][p[2]], IntVal(0))
            /\ ~RLess(IntVal(1), d_norm[p[1]][p[2]])
            /\ ~IsFinite(depth_raw[p[1]][p[2]]) =>
                  /\ d_norm[p[1]][p[2]] = IntVal(0)
                  /\ d16[p[1]][p[2]] = 0

----------------------------------------------------------------------------
\* _compute_mask_depth_stats (lines 212-260).  A focus point is a pair of
\* coordinates in halves (0, 1, 2 stand for 0.0, 0.5, 1.0); radii are in
\* thousandths of the longer raster side.

\* Line 214: the pixels of the mask.
MaskPixels(mu) == {p \in Pixels(mu) : mu[p[1]][p[2]] > 0}

\* Line 218: np.clip(focus_points, 0.0, 1.0) at one coordinate.
ClipUnit(c) == Max(0, Min(2, c))

\* Lines 219-223: the radius from ZOE_FOCUS_RADIUS (0: not set, the default
\* 0.08 applies), limited to [0.005, 0.5].
RadiusNorm(env) == Max(5, Min(500, IF env = 0 THEN 80 ELSE env))

\* Lines 230-234: whether pixel p lies in the disc of radius rn around the
\* focus point c of an h x w raster; distances are doubled to stay whole.
InDisc(p, c, h, w, rn) ==
    LET dx == 2 * p[2] - ClipUnit(c[1]) * (w - 1)
        dy == 2 * p[1] - ClipUnit(c[2]) * (h - 1)
        \* 500 * 500 * (dx^2 + dy^2) <= (rn * max(h, w))^2, with
        \* rn * max(h, w) = 500 * a + b
        a == (rn * Max(h, w)) \div 500
        b == (rn * Max(h, w)) % 500
    IN  dx * dx + dy * dy - a * a <= (1000 * a * b + b * b) \div 250000

\* Line 235: masked = mask & focus_mask.
FocusMasked(dm, mu, fp, env) ==
    {p \in MaskPixels(mu) :
        \E i \in 1..Len(fp.pts) :
            InDisc(p, fp.pts[i], RasterH(dm), RasterW(dm), RadiusNorm(env))}

\* Lines 216-239: whether the statistics are restricted to the focus discs.
FocusUsed(dm, mu, fp, env) ==
    /\ fp.present /\ Len(fp.pts) >= 1
    /\ Cardinality(FocusMasked(dm, mu, fp, env)) >= 64

\* The final mask of lines 214-239.
StatsRegion(dm, mu, fp, env) ==
    IF FocusUsed(dm, mu, fp, env) THEN FocusMasked(dm, mu, fp, env)
    ELSE MaskPixels(mu)

\* Mutant of TooFewPixels: any mask pixel is enough.
TooFewPixelsLax(count) == count < 1

\* Line 241.
TooFewPixels(count) == count < 16
\* Line 245.
TooFewValues(size) == size < 8

\* The k-th smallest (k counted from 0) of the values of r at the pixels P.
KthSmallest(r, P, kk) ==
    LET p == CHOOSE q \in P :
                 /\ Cardinality({o \in P : RLess(r[o[1]][o[2]], r[q[1]][q[2]])}) <= kk
                 /\ kk < Cardinality({o \in P : ~RLess(r[q[1]][q[2]], r[o[1]][o[2]])})
    IN  r[p[1]][p[2]]

\* np.percentile(vals, 25 * quarters) with linear interpolation, vals being
\* the values of r at the pixels P; np.median is the case quarters = 2.
Percentile(r, P, quarters) ==
    LET pos == (Cardinality(P) - 1) * quarters
        lo == KthSmallest(r, P, pos \div 4)
    IN  IF pos % 4 = 0 THEN lo
        ELSE RAdd(lo, RMul(Rat(pos % 4, 4),
                           RSub(KthSmallest(r, P, (pos \div 4) + 1), lo)))

\* Lines 247-258 for the region R with finite pixels P.
StatsOf(dm, R, P, focus_px) ==
    [fields |-> {"zoe_band_center", "zoe_band_iqr", "zoe_mask_px"}
                    \cup (IF IsFinite(focus_px) THEN {"zoe_focus_radius_px"}
                          ELSE {}),
     zoe_band_center |-> Percentile(dm, P, 2),
     zoe_band_iqr |-> RMax(RSub(Percentile(dm, P, 3), Percentile(dm, P, 1)),
                           Rat(1, 1000000)),
     zoe_mask_px |-> Cardinality(R),
     zoe_focus_radius_px |-> focus_px]

\* Whether the mask has the shape of the depth map; if not, indexing raises
\* and line 259 turns the exception into an empty result.
ShapesAgree(dm, mu) ==
    RasterH(dm) = RasterH(mu) /\ RasterW(dm) = RasterW(mu)

\* Lines 212-260.  A focus radius that is not in use is reported as absent
\* (the non-finite value stands for None).
MaskDepthStats(dm, mu, fp, env) ==
    IF ~ShapesAgree(dm, mu) THEN NoStats
    ELSE CHOOSE res \in
            {IF TooFewPixels(Cardinality(R)) THEN NoStats
             ELSE IF TooFewValues(Cardinality(R \cap FinitePixels(dm)))
             THEN NoStats
             ELSE StatsOf(dm, R, R \cap FinitePixels(dm),
                          IF FocusUsed(dm, mu, fp, env)
                          THEN Rat(RadiusNorm(env) * Max(RasterH(dm), RasterW(dm)),
                                   1000)
                          ELSE NaN) :
                R \in {StatsRegion(dm, mu, fp, env)}} : TRUE

StatsSizes == {<<3, 5>>, <<4, 4>>, <<2, 9>>, <<MaxStats, MaxStats>>}
StatsDepthPats == {"flat", "ramp", "sparse", "void"}
StatsDepthOf(pat, y, x) ==
    CASE pat = "flat" -> Rat(1, 2)
      [] pat = "ramp" -> Rat((3 * y + x) % 7, 8)
      [] pat = "sparse" -> IF (y + x) % 3 = 0 THEN Rat(x % 4, 4) ELSE NaN
      [] pat = "void" -> NaN
StatsMaskPats == {"zero", "all", "row", "band", "skewed"}
StatsMaskOf(pat, y, x) ==
    CASE pat = "zero" -> 0
      [] pat = "all" -> 255
      [] pat = "row" -> IF y = 0 THEN 255 ELSE 0
      [] pat = "band" -> IF y < 2 THEN 1 ELSE 0
      [] pat = "skewed" -> 255
StatsFocus ==
    {[present |-> FALSE, pts |-> <<>>],
     [present |-> TRUE, pts |-> << <<1, 1>> >>],
     [present |-> TRUE, pts |-> << <<0, 0>>, <<3, 2>> >>]}
StatsRadii == {0, 1, 500, 2000}

InitStats ==
    /\ \E sz \in StatsSizes : \E dp \in StatsDepthPats : \E mp \in StatsMaskPats :
          /\ depth_map = [y \in 0..(sz[1] - 1) |-> [x \in 0..(sz[2] - 1) |->
                             StatsDepthOf(dp, y, x)]]
          /\ mask_uint8 = [y \in 0..(sz[1] - 1) |->
                              [x \in 0..(sz[2] - (IF mp = "skewed" THEN 2 ELSE 1)) |->
                                  StatsMaskOf(mp, y, x)]]
    /\ focus_points \in StatsFocus
    /\ focus_radius \in StatsRadii
    /\ stats = NoStats
    /\ spc = "call"
    /\ IdleTiled
    /\ IdleAlign
    /\ IdleRefine
    /\ IdleNorm
    /\ IdleRun
    /\ IdleMain

ComputeStats ==
    /\ spc = "call"
    /\ stats' = MaskDepthStats(depth_map, mask_uint8, focus_points, focus_radius)
    /\ spc' = "ret"
    /\ UNCHANGED <<depth_map, mask_uint8, focus_points, focus_radius>>
    /\ UNCHANGED <<tiledVars, alignVars, refineVars, normVars, runVars>>
    /\ UNCHANGED mainVars

NextStats == ComputeStats
SpecStats == InitStats /\ [][NextStats]_vars

\* C15: statistics are returned exactly when the selected region (the mask,
\* or its part inside the focus discs when that part has at least 64 pixels)
\* has at least 16 pixels of which at least 8 have a finite depth value; the
\* reported pixel count is then that of the region and at least 16, and the
\* reported interquartile range is at least 1e-6.  In every other case, an
\* all-zero mask included, the result has no field at all.
StatsOnlyWhenEnough ==
    spc = "ret" =>
        LET region == StatsRegion(depth_map, mask_uint8, focus_points,
                                  focus_radius)
            enough == /\ ShapesAgree(depth_map, mask_uint8)
                      /\ Cardinality(region) >= 16
                      /\ Cardinality(region \cap FinitePixels(depth_map)) >= 8
        IN  /\ enough =>
                  /\ {"zoe_band_center", "zoe_band_iqr", "zoe_mask_px"}
                         \subseteq stats.fields
                  /\ stats.zoe_mask_px = Cardinality(region)
                  /\ stats.zoe_mask_px >= 16
                  /\ ~RLess(stats.zoe_band_iqr, Rat(1, 1000000))
            /\ ~enough => stats.fields = {}
            /\ MaskPixels(mask_uint8) = {} => stats.fields = {}

\* C15 witness: statistics restricted to a focus disc whose values are all
\* equal, so that the interquartile range is the floor itself; and the
\* region is smaller than the mask.
StatsOnlyWhenEnoughWitness ==
    /\ spc = "ret"
    /\ "zoe_focus_radius_px" \in stats.fields
    /\ stats.zoe_band_iqr = Rat(1, 1000000)
    /\ stats.zoe_mask_px < Cardinality(MaskPixels(mask_uint8))

----------------------------------------------------------------------------
\* Python values of main.  A str is a sequence of tokens, a token being a
\* run of whitespace " " or a word; None and a str are held as the
\* sequences of length 0 and 1 where either may occur.

None == <<>>
Some(s) == <<s>>
Word(t) == <<t>>

\* str.strip().
RECURSIVE LStrip(_)
LStrip(s) == IF s /= <<>> /\ s[1] = " " THEN LStrip(Tail(s)) ELSE s
RECURSIVE RStrip(_)
RStrip(s) ==
    IF s /= <<>> /\ s[Len(s)] = " "
    THEN RStrip(SubSeq(s, 1, Len(s) - 1))
    ELSE s
Strip(s) == RStrip(LStrip(s))

\* str.lower() on the words that occur.
Lower(s) ==
    [i \in DOMAIN s |->
        CASE s[i] = "CPU" -> "cpu" [] s[i] = "CUDA" -> "cuda" [] OTHER -> s[i]]

\* The truth value of None or a str; `v or d` for a str d; `s or None`.
Truthy(v) == v /= None /\ v[1] /= <<>>
OrStr(v, d) == IF Truthy(v) THEN v[1] ELSE d
OrNone(s) == IF s /= <<>> THEN Some(s) ELSE None

\* os.getenv(name, default).
Getenv(name, default) ==
    IF environ[name] = None THEN default ELSE environ[name][1]

\* A printed line: a JSON object with the given keys, or other text; line
\* is the number of the input line being handled (0 before the loop).
JsonLine(keys, n) == [json |-> TRUE, keys |-> keys, line |-> n]
TextLine(n) == [json |-> FALSE, keys |-> {}, line |-> n]

----------------------------------------------------------------------------
\* run_once, depth step (lines 586-677), with _should_use_tiles (162-193),
\* _get_smoothing_prefs (67-76) and _maybe_smooth_depth (79-94).  An
\* environment variable that holds a number is 0 when it is not set (or does
\* not parse), which selects the default.

\* Line 597: max_dim = int(os.getenv('ZOE_MAX_DIM', zoe_max_dim or 2048)).
MaxDimOf(e) == IF e.ZOE_MAX_DIM = 0 THEN 2048 ELSE e.ZOE_MAX_DIM

\* Lines 163-173.
UseTilesOf(e, w, h) ==
    CASE e.ZOE_USE_TILES = "on" -> TRUE
      [] e.ZOE_USE_TILES = "auto" ->
            Max(w, h) > (IF e.ZOE_TILE_AUTO_MIN = 0 THEN MaxDimOf(e) + 256
                         ELSE e.ZOE_TILE_AUTO_MIN)
      [] OTHER -> FALSE

\* Lines 174-178.
TileSizeOf(e) ==
    Max(128, IF e.ZOE_TILE_SIZE = 0 THEN MaxDimOf(e) ELSE e.ZOE_TILE_SIZE)

\* Lines 179-184.
TileOverlapOf(e) ==
    Max(16, Min(IF e.ZOE_TILE_OVERLAP = 0 THEN Max(TileSizeOf(e) \div 8, 64)
                ELSE e.ZOE_TILE_OVERLAP,
                TileSizeOf(e) - 1))

\* Lines 185-192.
TileGuideOf(e, w, h) ==
    LET g == IF e.ZOE_TILE_GUIDE = 0 THEN Min(TileSizeOf(e), MaxDimOf(e))
             ELSE e.ZOE_TILE_GUIDE
    IN  IF UseTilesOf(e, w, h) /\ g >= 128 THEN g ELSE 0

\* A value stored in a float32 array: rounded to the nearest 1 / FUnit.
Float32(v) ==
    IF ~IsFinite(v) THEN NaN
    ELSE Rat((2 * v.n * FUnit + v.d) \div (2 * v.d), FUnit)
Float32Raster(r) ==
    [y \in DOMAIN r |-> [x \in DOMAIN r[y] |-> Float32(r[y][x])]]

\* The kernel of gaussian_filter for sigma = 0.6 (radius int(4 * 0.6 + 0.5)
\* = 2), in thousandths: exp(-t^2 / 0.72) normalised to sum 1.
GaussTap(t) == CASE Abs(t) = 0 -> 664 [] Abs(t) = 1 -> 165 [] Abs(t) = 2 -> 3

\* Index i of an axis of length n under scipy's mode 'reflect'.
Reflect(i, n) ==
    LET j == i % (2 * n)
    IN  IF j < n THEN j ELSE 2 * n - 1 - j

\* The sum of GaussTap(t) * at[t] / 1000 over the five taps.
GaussSum(at) ==
    RAdd(RAdd(RAdd(RMul(Rat(GaussTap(-2), 1000), at[-2]),
                   RMul(Rat(GaussTap(-1), 1000), at[-1])),
              RAdd(RMul(Rat(GaussTap(0), 1000), at[0]),
                   RMul(Rat(GaussTap(1), 1000), at[1]))),
         RMul(Rat(GaussTap(2), 1000), at[2]))

\* gaussian_filter1d along axis 0 and along axis 1, each with a float32
\* output.
GaussAxis0(r) ==
    [y \in DOMAIN r |-> [x \in DOMAIN r[y] |->
        Float32(GaussSum([t \in -2..2 |-> r[Reflect(y + t, RasterH(r))][x]]))]]
GaussAxis1(r) ==
    [y \in DOMAIN r |-> [x \in DOMAIN r[y] |->
        Float32(GaussSum([t \in -2..2 |-> r[y][Reflect(x + t, RasterW(r))]]))]]

\* Lines 86-94: the 3 x 3 blur [[1, 2, 1], [2, 4, 2], [1, 2, 1]] / 16 over
\* the raster padded with its edge values.
BoxTap(t) == IF t = 0 THEN 2 ELSE 1
BoxBlur(r) ==
    [y \in DOMAIN r |-> [x \in DOMAIN r[y] |->
        LET at(dy, dx) ==
                RMul(Rat(BoxTap(dy) * BoxTap(dx), 16),
                     r[Max(0, Min(RasterH(r) - 1, y + dy))]
                      [Max(0, Min(RasterW(r) - 1, x + dx))])
            row(dy) == RAdd(RAdd(at(dy, -1), at(dy, 0)), at(dy, 1))
        IN  Float32(RAdd(RAdd(row(-1), row(0)), row(1)))]]

\* _maybe_smooth_depth: gaussian_filter where scipy can be imported, the
\* box blur where it cannot.
MaybeSmooth(r, enabled, scipy) ==
    IF ~enabled THEN r
    ELSE IF scipy THEN GaussAxis1(GaussAxis0(r))
    ELSE BoxBlur(r)

\* Lines 623-628: depth_raw after the refinement step; `failed` tells
\* whether the call raised, in which case line 628 keeps the raster.
AfterRefine(d, img, mu, enabled, failed) ==
    IF enabled /\ ~failed
    THEN Float32Raster(RefineRaster(img, Float32Raster(d),
                                    [present |-> TRUE, vals |-> mu], TRUE))
    ELSE Float32Raster(d)

\* The keys of the metadata record and the values of those that are absent.
BaseKeys == {"width", "height", "out"}
DepthKeys ==
    {"depth_out", "depth_vis", "depth_ms", "zoe_variant", "zoe_device",
     "zoe_max_dim", "zoe_tta", "zoe_refine", "zoe_tiled", "zoe_tile_size",
     "zoe_tile_overlap", "depth_min", "depth_max", "depth_range"}
MetaBase ==
    [fields |-> BaseKeys, width |-> W, height |-> H,
     zoe_max_dim |-> 0, zoe_refine |-> "", zoe_tiled |-> 0,
     zoe_tile_size |-> 0, zoe_tile_overlap |-> 0, zoe_tile_guide |-> 0,
     zoe_downscaled_to |-> <<>>, depth_min |-> NaN, depth_max |-> NaN,
     depth_range |-> NaN, stats |-> NoStats]

\* Line 677.
MetaError == [MetaBase EXCEPT !.fields = BaseKeys \cup {"depth_error"}]

\* Lines 636-672: the record after a depth step that succeeded, for the
\* normalizer's result nrm and the statistics st.  (Paths, timing, variant,
\* device and the augmentation flag are left out: they do not depend on the
\* rasters.)
MetaDepth(nrm, st, down) ==
    [fields |-> BaseKeys \cup DepthKeys \cup st.fields
                   \cup (IF down /= <<>> THEN {"zoe_downscaled_to"} ELSE {})
                   \cup (IF guide_dim /= 0 THEN {"zoe_tile_guide"} ELSE {}),
     width |-> W, height |-> H,
     zoe_max_dim |-> MaxDimOf(environ),
     zoe_refine |-> IF environ.ZOE_REFINE THEN "1" ELSE "0",
     zoe_tiled |-> IF use_tiles THEN 1 ELSE 0,
     zoe_tile_size |-> tile_size,
     zoe_tile_overlap |-> overlap,
     zoe_tile_guide |-> guide_dim,
     zoe_downscaled_to |-> down,
     depth_min |-> nrm.d_min, depth_max |-> nrm.d_max,
     depth_range |-> RMax(RSub(nrm.d_max, nrm.d_min), Rat(1, 1000000)),
     stats |-> st]

\* Lines 631-672 for the raster r that reaches the normalizer.
MetaOfRaster(r) ==
    CHOOSE m \in
        {MetaDepth(nrm, MaskDepthStats(nrm.d_norm, mask_uint8, focus_points,
                                       focus_radius), downscaled_to) :
            nrm \in {NormalizeDepth(r)}} : TRUE

\* The state of run_once when the depth step begins (line 587): the image,
\* the mask and the prompt points are known, nothing has been inferred.
RunTileSettings == {<<0, 0, 0>>, <<128, 100, 128>>, <<100, 8, 64>>}
RunEnvirons(modes, autos, dims, refines) ==
    {[ZOE_USE_TILES |-> m, ZOE_TILE_AUTO_MIN |-> a, ZOE_TILE_SIZE |-> t[1],
      ZOE_TILE_OVERLAP |-> t[2], ZOE_TILE_GUIDE |-> t[3], ZOE_MAX_DIM |-> d,
      ZOE_REFINE |-> r, ZOE_SMOOTH_DEPTH |-> sm[1], scipy |-> sm[2]] :
        m \in modes, a \in autos, t \in RunTileSettings, d \in dims,
        r \in refines, sm \in {<<FALSE, TRUE>>, <<TRUE, TRUE>>, <<TRUE, FALSE>>}}

RunRgbPats == {"plain", "edge"}
RunMaskPats == {"zero", "all", "head"}
RunMaskOf(pat, y, x) ==
    CASE pat = "zero" -> 0
      [] pat = "all" -> 255
      [] pat = "head" -> IF x < 8 THEN 255 ELSE 0

\* Small images with every setting, and a wide image (wider than the
\* smallest guide) with the settings that tile it.
RunScenes ==
    {[size |-> sz, env |-> e, rgbpat |-> rp, maskpat |-> mp] :
        sz \in {<<16, 1>>},
        e \in RunEnvirons({"off", "on"}, {0}, {0, 12}, BOOLEAN),
        rp \in RunRgbPats, mp \in RunMaskPats}
    \cup
    {[size |-> sz, env |-> e, rgbpat |-> rp, maskpat |-> mp] :
        sz \in {<<9, 2>>},
        e \in RunEnvirons({"off"}, {0}, {0, 12}, BOOLEAN),
        rp \in {"plain"}, mp \in {"all"}}
    \cup
    {[size |-> sz, env |-> e, rgbpat |-> rp, maskpat |-> mp] :
        sz \in {<<MaxRun, 1>>},
        e \in RunEnvirons({"on", "auto"}, {0, 100}, {0}, {TRUE}),
        rp \in {"plain"}, mp \in {"all"}}

InitRun ==
    /\ \E sc \in RunScenes :
          /\ W = sc.size[1] /\ H = sc.size[2]
          /\ environ = sc.env
          /\ rgb = [y \in 0..(sc.size[2] - 1) |-> [x \in 0..(sc.size[1] - 1) |->
                       RgbOf(sc.rgbpat, y, x)]]
          /\ mask_uint8 = [y \in 0..(sc.size[2] - 1) |->
                              [x \in 0..(sc.size[1] - 1) |->
                                  RunMaskOf(sc.maskpat, y, x)]]
          /\ focus_points = IF sc.maskpat = "zero"
                            THEN [present |-> FALSE, pts |-> <<>>]
                            ELSE [present |-> TRUE, pts |-> << <<1, 1>> >>]
    /\ mask_img = [present |-> TRUE, vals |-> mask_uint8]
    /\ mask_is_binary = TRUE
    /\ depth = NoRaster /\ refined = NoRaster /\ rpc = "idle"
    /\ tile_size = 0 /\ overlap = 0 /\ guide_dim = 0
    /\ pc = "idle" /\ ts = 0 /\ ov = 0 /\ step = 0 /\ clamped = FALSE
    /\ xs = <<>> /\ ys = <<>> /\ guide = NoGuide /\ calls = <<>> /\ k = 0
    /\ acc = NoRaster /\ wsum = NoRaster /\ out = NoRaster
    /\ IdleAlign
    /\ IdleNorm
    /\ depth_map = NoRaster /\ focus_radius = 0 /\ stats = NoStats
    /\ spc = "idle"
    /\ use_tiles = FALSE /\ downscaled_to = <<>> /\ refine_failed = FALSE
    /\ meta = MetaBase
    /\ run_pc = "config"
    /\ ZOE_CACHE = {} /\ load_calls = <<>> /\ stdin = <<>> /\ line_no = 0
    /\ stdout = <<>> /\ main_pc = "run_once"

\* Lines 589-603: the model is fetched or loaded (load_zoe may raise, which
\* ends the depth step at line 677) and the settings are read.
Configure ==
    /\ run_pc = "config"
    /\ \E loaded \in BOOLEAN :
          IF loaded
          THEN /\ use_tiles' = UseTilesOf(environ, W, H)
               /\ tile_size' = TileSizeOf(environ)
               /\ overlap' = TileOverlapOf(environ)
               /\ guide_dim' = TileGuideOf(environ, W, H)
               /\ pc' = IF UseTilesOf(environ, W, H) THEN "start" ELSE "idle"
               /\ run_pc' = "infer"
               /\ meta' = meta
          ELSE /\ meta' = MetaError
               /\ run_pc' = "ret"
               /\ UNCHANGED <<use_tiles, tile_size, overlap, guide_dim, pc>>
    /\ UNCHANGED <<W, H, ts, ov, step, clamped, xs, ys, guide, calls, k, acc,
                   wsum, out>>
    /\ UNCHANGED <<environ, downscaled_to, refine_failed>>
    /\ UNCHANGED <<alignVars, refineVars, normVars, statsVars>>
    /\ UNCHANGED mainVars

\* Line 605 when _zoe_infer_tiled has returned.
TiledReturn ==
    /\ run_pc = "infer" /\ use_tiles /\ pc = "done"
    /\ depth' = out
    /\ run_pc' = "refine"
    /\ UNCHANGED <<rgb, mask_img, mask_is_binary, refined, rpc>>
    /\ UNCHANGED <<tiledVars, alignVars, normVars, statsVars>>
    /\ UNCHANGED mainVars
    /\ UNCHANGED <<environ, use_tiles, downscaled_to, refine_failed, meta>>

\* Line 605 when _zoe_infer_tiled has raised: the handler of line 676.
TiledFail ==
    /\ run_pc = "infer" /\ use_tiles /\ pc = "raised"
    /\ meta' = MetaError
    /\ run_pc' = "ret"
    /\ UNCHANGED <<tiledVars, alignVars, refineVars, normVars, statsVars>>
    /\ UNCHANGED mainVars
    /\ UNCHANGED <<environ, use_tiles, downscaled_to, refine_failed>>

\* Lines 608-612: the size the image is reduced to, <<>> when it is not.
DownscaledSize ==
    IF Max(W, H) > MaxDimOf(environ)
    THEN <<RoundDiv(W * MaxDimOf(environ), Max(W, H)),
           RoundDiv(H * MaxDimOf(environ), Max(W, H))>>
    ELSE <<>>

\* Lines 607-620: one oracle call on the (reduced) image; its raster, taken
\* back to the size of the image, is the value of the pattern at each pixel.
InferSingle ==
    /\ run_pc = "infer" /\ ~use_tiles
    /\ \E res \in OraclePats \cup {"void", "raise"} :
          /\ calls' = Append(calls,
                 [kind |-> "single",
                  w |-> IF DownscaledSize = <<>> THEN W ELSE DownscaledSize[1],
                  h |-> IF DownscaledSize = <<>> THEN H ELSE DownscaledSize[2],
                  x |-> 0, y |-> 0, res |-> res])
          /\ downscaled_to' = DownscaledSize
          /\ IF res = "raise"
             THEN /\ meta' = MetaError
                  /\ run_pc' = "ret"
                  /\ depth' = depth
             ELSE /\ depth' = [y \in 0..(H - 1) |-> [x \in 0..(W - 1) |->
                                  OracleVal(res, y, x)]]
                  /\ run_pc' = "refine"
                  /\ meta' = meta
    /\ UNCHANGED <<W, H, tile_size, overlap, guide_dim, pc, ts, ov, step,
                   clamped, xs, ys, guide, k, acc, wsum, out>>
    /\ UNCHANGED <<rgb, mask_img, mask_is_binary, refined, rpc>>
    /\ UNCHANGED <<environ, use_tiles, refine_failed>>
    /\ UNCHANGED <<alignVars, normVars, statsVars>>
    /\ UNCHANGED mainVars

\* Lines 623-628: the refinement step.  The call may raise (any Exception,
\* such as a MemoryError of its per-pixel allocations); line 628 passes.
RefineStep ==
    /\ run_pc = "refine"
    /\ \E failed \in (IF environ.ZOE_REFINE THEN BOOLEAN ELSE {FALSE}) :
          /\ refine_failed' = failed
          /\ depth_raw' = AfterRefine(depth, rgb, mask_uint8,
                                      environ.ZOE_REFINE, failed)
          /\ refined' = IF environ.ZOE_REFINE /\ ~failed THEN depth_raw'
                        ELSE refined
    /\ run_pc' = "smooth"
    /\ UNCHANGED <<rgb, depth, mask_img, mask_is_binary, rpc>>
    /\ UNCHANGED <<d16, d_norm, d_min, d_max, npc>>
    /\ UNCHANGED <<environ, use_tiles, downscaled_to, meta>>
    /\ UNCHANGED <<tiledVars, alignVars, statsVars>>
    /\ UNCHANGED mainVars

\* Line 629.
SmoothStep ==
    /\ run_pc = "smooth"
    /\ depth_raw' = MaybeSmooth(depth_raw, environ.ZOE_SMOOTH_DEPTH,
                                environ.scipy)
    /\ run_pc' = "emit"
    /\ UNCHANGED <<d16, d_norm, d_min, d_max, npc>>
    /\ UNCHANGED <<environ, use_tiles, downscaled_to, refine_failed, meta>>
    /\ UNCHANGED <<tiledVars, alignVars, refineVars, statsVars>>
    /\ UNCHANGED mainVars

\* Lines 631-677: normalisation, the files, the statistics and the metadata.
\* Writing the 16-bit file may raise, which ends the step at line 677.
Emit ==
    /\ run_pc = "emit"
    /\ \E nrm \in {NormalizeDepth(depth_raw)} : \E saved \in BOOLEAN :
          /\ d16' = nrm.d16
          /\ d_norm' = nrm.d_norm
          /\ d_min' = nrm.d_min
          /\ d_max' = nrm.d_max
          /\ IF saved
             THEN /\ depth_map' = nrm.d_norm
                  /\ \E st \in {MaskDepthStats(nrm.d_norm, mask_uint8,
                                               focus_points, focus_radius)} :
                        /\ stats' = st
                        /\ meta' = MetaDepth(nrm, st, downscaled_to)
             ELSE /\ meta' = MetaError
                  /\ UNCHANGED <<depth_map, stats>>
    /\ run_pc' = "ret"
    /\ UNCHANGED <<depth_raw, npc, mask_uint8, focus_points, focus_radius, spc>>
    /\ UNCHANGED <<environ, use_tiles, downscaled_to, refine_failed>>
    /\ UNCHANGED <<tiledVars, alignVars, refineVars>>
    /\ UNCHANGED mainVars

\* The value of the call run_once(...): the body (lines 564-677) ends
\* after the depth step without a return statement, on every path.
RunOnceResult == None

\* json.dumps of None (the text null, which has no keys) or of a dict.
JsonDumps(v, n) ==
    IF v = None THEN JsonLine({}, n) ELSE JsonLine(v[1].fields, n)

\* Lines 838-839 of main: meta = run_once(...); print(json.dumps(meta)).
MainPrint ==
    /\ main_pc = "run_once" /\ run_pc = "ret"
    /\ stdout' = Append(stdout, JsonDumps(RunOnceResult, 0))
    /\ main_pc' = "exit"
    /\ UNCHANGED <<ZOE_CACHE, load_calls, stdin, line_no>>
    /\ UNCHANGED <<tiledVars, alignVars, refineVars, normVars, statsVars,
                   runVars>>

NextRun ==
    \/ Configure
    \/ Prepare
    \/ SkipGuide
    \/ BuildGuide
    \/ TileStep
    \/ TileRaise
    \/ Finish
    \/ TiledReturn
    \/ TiledFail
    \/ InferSingle
    \/ RefineStep
    \/ SmoothStep
    \/ Emit
    \/ MainPrint

SpecRun == InitRun /\ [][NextRun]_vars

\* The depth step has ended with the metadata of a success.
RunSucceeded == run_pc = "ret" /\ "depth_min" \in meta.fields

\* A raster of the size of the image that is 0 everywhere except for the
\* value 1 at pixel q: a valid raster with minimum 0 and maximum 1.
UnitRaster(q) ==
    [y \in 0..(H - 1) |-> [x \in 0..(W - 1) |->
        IF <<y, x>> = q THEN IntVal(1) ELSE IntVal(0)]]

\* C13: when the raster that reaches the normalizer has no finite value, the
\* 16-bit raster is zero everywhere and the metadata differ from those of a
\* valid raster with minimum 0 and maximum 1.
NoValidDataFlagged ==
    (RunSucceeded /\ FinitePixels(depth_raw) = {}) =>
        /\ \A p \in Pixels(d16) : d16[p[1]][p[2]] = 0
        /\ \A q \in {<<0, 0>>, <<H - 1, W - 1>>} :
              meta /= MetaOfRaster(UnitRaster(q))

\* C16: the 16-bit raster, the minimum, the maximum and the statistics of a
\* finished run are those the same run yields without the smoothing pass.
SmoothingIsVisualOnly ==
    RunSucceeded =>
        \E nrm \in {NormalizeDepth(AfterRefine(depth, rgb, mask_uint8,
                                                environ.ZOE_REFINE,
                                                refine_failed))} :
            /\ d16 = nrm.d16
            /\ d_min = nrm.d_min
            /\ d_max = nrm.d_max
            /\ stats = MaskDepthStats(nrm.d_norm, mask_uint8, focus_points,
                                      focus_radius)

\* C18: the metadata of a run whose refinement step failed differ from those
\* the same run has when the refinement step succeeds.
RefineFailureRecorded ==
    (RunSucceeded /\ environ.ZOE_REFINE /\ refine_failed) =>
        meta /= MetaOfRaster(
                    MaybeSmooth(AfterRefine(depth, rgb, mask_uint8, TRUE, FALSE),
                                environ.ZOE_SMOOTH_DEPTH, environ.scipy))

\* C20: the tile size and overlap reported by a tiled run are the ts and ov
\* that _zoe_infer_tiled used.
MetaReportsUsedTiling ==
    (RunSucceeded /\ use_tiles) =>
        /\ meta.zoe_tile_size = ts
        /\ meta.zoe_tile_overlap = ov

\* C24: in one-shot mode main prints the metadata record run_once built:
\* after a successful depth step the printed record has depth_min, depth_max
\* and depth_range, after a failed one it has depth_error.
PrintedMetaShowsDepthOutcome ==
    (main_pc = "exit" /\ run_pc = "ret") =>
        /\ Len(stdout) = 1 /\ stdout[1].json
        /\ stdout[1].keys = meta.fields
        /\ "depth_min" \in meta.fields =>
              {"depth_min", "depth_max", "depth_range"} \subseteq stdout[1].keys
        /\ "depth_min" \notin meta.fields => "depth_error" \in stdout[1].keys

----------------------------------------------------------------------------
\* main in loop mode (lines 689-834).

\* Lines 35-39.
NormalizeVariant(name) ==
    IF name = <<>> THEN Word("ZoeD_NK")
    ELSE IF Strip(name) = <<>> THEN Word("ZoeD_NK") ELSE Strip(name)

\* Lines 696-699: the locals pre_v, pre_root, pre_dev and the cache key of
\* the preload.
PreV == Getenv("ZOE_VARIANT", Word("ZoeD_NK"))
PreRoot == OrNone(Getenv("ZOE_ROOT", <<>>))
PreDev == OrNone(Getenv("ZOE_DEVICE", <<>>))
PreloadKey == <<PreV, OrStr(PreRoot, <<>>), OrStr(PreDev, <<>>)>>

\* Lines 745-746: the variant and the cache key of the request obj.
RequestVariant(obj) ==
    NormalizeVariant(OrStr(obj.zoe_variant,
                           Getenv("ZOE_VARIANT", Word("ZoeD_NK"))))
RequestKey(obj) ==
    <<RequestVariant(obj), Strip(OrStr(obj.zoe_root, <<>>)),
      Strip(OrStr(obj.zoe_device, <<>>))>>

\* load_zoe, lines 384-390: the device the model is moved to.
LoadDevice(device) ==
    IF device /= None THEN device[1]
    ELSE LET dev_env == Lower(Strip(Getenv("ZOE_DEVICE", <<>>)))
         IN  IF dev_env \in {Word("cpu"), Word("cuda")} THEN dev_env
             ELSE IF environ.cuda THEN Word("cuda") ELSE Word("cpu")

\* load_zoe, lines 395, 411-424: the repository the model is taken from,
\* the argument local_root or else ZOE_ROOT.
LoadRoot(local_root) ==
    OrStr(local_root, Strip(Getenv("ZOE_ROOT", <<>>)))

\* One call load_zoe(local_root, variant, device) made while input line
\* number by was handled (0: by the preload); ok tells whether it returned.
LoadCall(by, local_root, variant, device, ok) ==
    [by |-> by, local_root |-> local_root, variant |-> variant,
     device |-> device, root |-> LoadRoot(local_root),
     dev |-> LoadDevice(device), ok |-> ok]

\* The ways a call of load_zoe ends: it raises (line 526), it returns, or
\* it returns after printing a "[ZoeDepth] ..." line (lines 515, 524).
LoadOutcomes == {"raise", "quiet", "noisy"}

\* json.loads of a stripped line: the objects of the requests that occur;
\* any other text raises, and "[]" is valid JSON without a get method.
Obj(req, image, out_path, depth_out, variant, root, device) ==
    [req |-> req, image |-> image, out |-> out_path, depth_out |-> depth_out,
     zoe_variant |-> variant, zoe_root |-> root, zoe_device |-> device]
JsonObjects ==
    [missing |-> Obj(Some(Word("1")), Some(Word("a.png")), None, None,
                     None, None, None),
     mask |-> Obj(None, Some(Word("a.png")), Some(Word("m.png")), None,
                  None, None, None),
     depth |-> Obj(Some(Word("2")), Some(Word("a.png")), Some(Word("m.png")),
                   Some(Word("d.png")), None, None, None),
     named |-> Obj(Some(Word("3")), Some(Word("a.png")), Some(Word("m.png")),
                   Some(Word("d.png")), Some(Word("ZoeD_N")),
                   Some(<<" ", "/zoe">>), Some(Word("cpu")))]
IsObject(s) == Len(s) = 1 /\ s[1] \in DOMAIN JsonObjects
JsonLoads(s) == JsonObjects[s[1]]

\* Lines 739-741: the response of a request whose mask was saved.
RespKeys(obj) ==
    {"ok", "out", "w", "h"} \cup (IF obj.req /= None THEN {"req"} ELSE {})

\* The input lines that occur, each with its line end, and the
\* environments main is started in.
MaxLines == 2
LoopLines ==
    {<<" ">>, <<"{", " ">>, <<"[]", " ">>, <<"missing", " ">>,
     <<" ", "mask", " ">>, <<"depth", " ">>, <<"named", " ">>}
RECURSIVE SeqsUpTo(_, _)
SeqsUpTo(S, n) ==
    IF n = 0 THEN {<<>>}
    ELSE SeqsUpTo(S, n - 1)
            \cup {Append(q, e) : q \in {r \in SeqsUpTo(S, n - 1) :
                                           Len(r) = n - 1}, e \in S}
LoopEnvirons ==
    {e \in [ZOE_PRELOAD : {None, Some(Word("0"))},
            ZOE_VARIANT : {None, Some(<<"ZoeD_N", " ">>)},
            ZOE_ROOT : {None, Some(Word("/zoe"))},
            ZOE_DEVICE : {None, Some(Word("cpu"))},
            cuda : BOOLEAN] :
        (e.ZOE_VARIANT /= None \/ e.cuda) =>
            /\ e.ZOE_ROOT = None /\ e.ZOE_DEVICE = None
            /\ ~(e.ZOE_VARIANT /= None /\ e.cuda)}

\* Line 690: main was started with --loop; the cache of line 30 is empty.
InitLoop ==
    /\ environ \in LoopEnvirons
    /\ stdin \in SeqsUpTo(LoopLines, MaxLines)
    /\ ZOE_CACHE = {} /\ load_calls = <<>> /\ line_no = 0 /\ stdout = <<>>
    /\ main_pc = "preload"
    /\ use_tiles = FALSE /\ downscaled_to = <<>> /\ refine_failed = FALSE
    /\ meta = NoMeta /\ run_pc = "idle"
    /\ IdleTiled
    /\ IdleAlign
    /\ IdleRefine
    /\ IdleNorm
    /\ IdleStats

\* What main leaves alone in loop mode.
LoopFrame ==
    /\ UNCHANGED <<environ, use_tiles, downscaled_to, refine_failed, meta,
                   run_pc, stdin>>
    /\ UNCHANGED <<tiledVars, alignVars, refineVars, normVars, statsVars>>

\* Lines 693-705: the optional preload.
Preload ==
    /\ main_pc = "preload"
    /\ IF Getenv("ZOE_PRELOAD", Word("1")) = Word("1")
          /\ PreloadKey \notin ZOE_CACHE
       THEN \E res \in LoadOutcomes :
               /\ load_calls' = Append(load_calls,
                     LoadCall(0, PreRoot, PreV, PreDev, res /= "raise"))
               /\ ZOE_CACHE' = IF res = "raise" THEN ZOE_CACHE
                               ELSE ZOE_CACHE \cup {PreloadKey}
               /\ stdout' = stdout
                     \o (IF res = "noisy" THEN <<TextLine(0)>> ELSE <<>>)
                     \o <<JsonLine(IF res = "raise"
                                   THEN {"warn", "error"}
                                   ELSE {"info", "variant", "device"}, 0)>>
       ELSE UNCHANGED <<ZOE_CACHE, load_calls, stdout>>
    /\ main_pc' = "loop"
    /\ UNCHANGED line_no
    /\ LoopFrame

\* Mutant of NextLine: the line is not stripped.
NextLineRaw == stdin[line_no + 1]

\* The line the loop of line 707 reads next, stripped (line 708).
NextLine == Strip(stdin[line_no + 1])

\* Lines 707-710: a blank line is skipped.
SkipBlank ==
    /\ main_pc = "loop" /\ line_no < Len(stdin)
    /\ NextLine = <<>>
    /\ line_no' = line_no + 1
    /\ UNCHANGED <<ZOE_CACHE, load_calls, stdout, main_pc>>
    /\ LoopFrame

\* Whether lines 712-725 get past the check of image and out.
WellFormed(s) ==
    /\ IsObject(s)
    /\ Truthy(JsonLoads(s).image) /\ Truthy(JsonLoads(s).out)

\* Lines 711-740, 832-833: a request that ends with an error response: the
\* line is not JSON or not an object (the handler of line 832), image or
\* out is missing (lines 723-725), or reading the image, segmenting or
\* saving the mask raises (the handler of line 832).
Reject ==
    /\ main_pc = "loop" /\ line_no < Len(stdin)
    /\ NextLine /= <<>>
    /\ stdout' = Append(stdout, JsonLine({"error"}, line_no + 1))
    /\ line_no' = line_no + 1
    /\ UNCHANGED <<ZOE_CACHE, load_calls, main_pc>>
    /\ LoopFrame

\* Lines 711-831: a request whose mask is saved.  With depth_out the depth
\* step of lines 743-830 runs: the model comes from the cache or from
\* load_zoe, and the pipeline of lines 754-828 either completes or raises
\* into the handler of line 829.
Answer ==
    /\ main_pc = "loop" /\ line_no < Len(stdin)
    /\ NextLine /= <<>> /\ WellFormed(NextLine)
    /\ \E obj \in {JsonLoads(NextLine)} :
          IF ~Truthy(obj.depth_out)
          THEN /\ stdout' = Append(stdout, JsonLine(RespKeys(obj), line_no + 1))
               /\ UNCHANGED <<ZOE_CACHE, load_calls>>
          ELSE IF RequestKey(obj) \in ZOE_CACHE
          THEN /\ \E done \in BOOLEAN :
                     stdout' = Append(stdout,
                        JsonLine(RespKeys(obj) \cup (IF done THEN DepthKeys
                                                     ELSE {"depth_error"}),
                                 line_no + 1))
               /\ UNCHANGED <<ZOE_CACHE, load_calls>>
          ELSE \E res \in LoadOutcomes : \E done \in BOOLEAN :
                  /\ load_calls' = Append(load_calls,
                        LoadCall(line_no + 1, obj.zoe_root,
                                 RequestVariant(obj), obj.zoe_device,
                                 res /= "raise"))
                  /\ ZOE_CACHE' = IF res = "raise" THEN ZOE_CACHE
                                  ELSE ZOE_CACHE \cup {RequestKey(obj)}
                  /\ stdout' = stdout
                        \o (IF res = "noisy" THEN <<TextLine(line_no + 1)>>
                            ELSE <<>>)
                        \o <<JsonLine(RespKeys(obj)
                                 \cup (IF res /= "raise" /\ done
                                       THEN DepthKeys ELSE {"depth_error"}),
                                 line_no + 1)>>
    /\ line_no' = line_no + 1
    /\ UNCHANGED main_pc
    /\ LoopFrame

\* Line 834: the input has ended and main returns.
LoopReturn ==
    /\ main_pc = "loop" /\ line_no = Len(stdin)
    /\ main_pc' = "exit"
    /\ UNCHANGED <<ZOE_CACHE, load_calls, line_no, stdout>>
    /\ LoopFrame

NextLoop ==
    \/ Preload
    \/ SkipBlank
    \/ Reject
    \/ Answer
    \/ LoopReturn
SpecLoop == InitLoop /\ [][NextLoop]_vars

\* The preload of lines 693-705 called load_zoe and the call returned.
PreloadSucceeded ==
    load_calls /= <<>> /\ load_calls[1].by = 0 /\ load_calls[1].ok

\* The request of input line n names no variant, root or device.
NamesNothing(n) ==
    \E obj \in {JsonLoads(Strip(stdin[n]))} :
        obj.zoe_variant = None /\ obj.zoe_root = None /\ obj.zoe_device = None

\* C22: in loop mode the depth model is loaded at most once per (variant,
\* root, device) configuration, and after a successful preload no request
\* that names no variant, root or device calls load_zoe, whatever ZOE_ROOT
\* and ZOE_DEVICE are.
LoadedOncePerConfiguration ==
    /\ \A i \in DOMAIN load_calls : \A j \in DOMAIN load_calls :
          (i < j /\ load_calls[i].ok /\ load_calls[j].ok) =>
              <<load_calls[i].variant, load_calls[i].root, load_calls[i].dev>>
                 /= <<load_calls[j].variant, load_calls[j].root,
                      load_calls[j].dev>>
    /\ PreloadSucceeded =>
          \A i \in DOMAIN load_calls :
              load_calls[i].by /= 0 => ~NamesNothing(load_calls[i].by)

\* The loop keeps taking steps: main is one sequential thread and every
\* call it makes returns or raises.
SpecLoopLive == SpecLoop /\ WF_vars(NextLoop)

\* The JSON lines printed while input lines were handled, in print order,
\* and the numbers of the non-blank lines read so far.
IsResponse(e) == e.json /\ e.line >= 1
Responses == SelectSeq(stdout, IsResponse)
NonBlankRead == {i \in 1..line_no : Strip(stdin[i]) /= <<>>}

\* Each non-blank line read so far has exactly one JSON response, the
\* responses follow the order of the lines, a blank line has none; a line
\* that is not a request with image and out has the response {"error"}, any
\* other response reports ok or an error; main returns only at the end of
\* the input.
ResponsesFollowInput ==
    /\ Len(Responses) = Cardinality(NonBlankRead)
    /\ {Responses[a].line : a \in DOMAIN Responses} = NonBlankRead
    /\ \A a \in DOMAIN Responses : \A b \in DOMAIN Responses :
          a < b => Responses[a].line < Responses[b].line
    /\ \A a \in DOMAIN Responses :
          /\ "ok" \in Responses[a].keys \/ Responses[a].keys = {"error"}
          /\ ~WellFormed(Strip(stdin[Responses[a].line])) =>
                Responses[a].keys = {"error"}
    /\ main_pc = "exit" => line_no = Len(stdin)

\* C23: in loop mode every non-blank input line gets exactly one JSON
\* response line, in input order, and a blank line gets none; a failing
\* request gets an error response and does not end the loop, so that every
\* line of the input is eventually read and answered.
EveryLineAnswered ==
    /\ []ResponsesFollowInput
    /\ <>(main_pc = "exit" /\ line_no = Len(stdin))

\* C23 witness: main has returned after two lines, the first of which
\* failed with an error response and the second of which was answered ok.
EveryLineAnsweredWitness ==
    /\ main_pc = "exit" /\ Len(stdin) = 2 /\ Len(Responses) = 2
    /\ Responses[1].line = 1 /\ Responses[2].line = 2
    /\ "error" \in Responses[1].keys \/ "depth_error" \in Responses[1].keys
    /\ "ok" \in Responses[2].keys /\ "depth_error" \notin Responses[2].keys

====
